---- MODULE Spec2Model ----
(***************************************************************************)
(* Model of the Evopedia archive reader (archive.js): the spatial search   *)
(* over the coordinate quadtrees (getTitlesInCoords and its asynchronous   *)
(* helpers) and the article reader (readArticle / readArticleChunk with    *)
(* the shared bzip2 web worker).                                            *)
(***************************************************************************)
EXTENDS Integers, Sequences, FiniteSets, TLC

\* ------------------------------------------------------------------------
\* Bounds of the model
\* ------------------------------------------------------------------------

\* number of getTitlesInCoords invocations made in one behaviour
MaxInvocations == 3
\* largest maxTitles argument tried (the smallest is -1)
MaxMaxTitles == 2
\* number of readArticle calls made in one behaviour
MaxArticles == 2
\* an article session is followed up to a read of MaxReadChunks chunks
MaxReadChunks == 3
\* number of initializeFromArchiveFiles calls made in one behaviour
MaxFlatInits == 1
\* calls of resolveRedirect made in a row on one title
MaxResolves == 2
\* message events the service worker receives in one behaviour
MaxMessages == 2
\* fetch events dispatched in one behaviour
MaxFetches == 2

\* ------------------------------------------------------------------------
\* Program constants
\* ------------------------------------------------------------------------

\* Size of chunks read in the dump files : 128 KB
CHUNK_SIZE == 131072

\* selector value of an inner node of the quadtree (0xFFFF)
InnerSelector == 65535
\* size in bytes of the header of an inner node
InnerNodeSize == 22

\* ------------------------------------------------------------------------
\* Geometry (geometry.js): points and rectangles
\* ------------------------------------------------------------------------

Point(x, y) == [x |-> x, y |-> y]

Rect(x, y, w, h) == [x |-> x, y |-> y, width |-> w, height |-> h]

\* geometry.rect built from two points
RectFromPoints(p1, p2) == Rect(p1.x, p1.y, p2.x - p1.x, p2.y - p1.y)

Normalized(r) ==
    [x      |-> IF r.width < 0 THEN r.x + r.width ELSE r.x,
     y      |-> IF r.height < 0 THEN r.y + r.height ELSE r.y,
     width  |-> IF r.width < 0 THEN -r.width ELSE r.width,
     height |-> IF r.height < 0 THEN -r.height ELSE r.height]

RectSW(r) == Point(r.x, r.y)
RectSE(r) == Point(r.x + r.width, r.y)
RectNW(r) == Point(r.x, r.y + r.height)
RectNE(r) == Point(r.x + r.width, r.y + r.height)

Intersect(a, b) ==
    /\ a.x < b.x + b.width
    /\ b.x < a.x + a.width
    /\ a.y < b.y + b.height
    /\ b.y < a.y + a.height

ContainsPoint(r, p) ==
    /\ r.x <= p.x
    /\ p.x < r.x + r.width
    /\ r.y <= p.y
    /\ p.y < r.y + r.height

\* midpoint (the rectangles of the model have even extents)
Center(r) == Point(r.x + (r.width \div 2), r.y + (r.height \div 2))

\* square of the planar distance: same order as the distance itself
Distance(p, q) == (p.x - q.x) * (p.x - q.x) + (p.y - q.y) * (p.y - q.y)

\* A rectangle representing all the earth globe
GLOBE_RECTANGLE == Rect(-181, -91, 362, 182)

\* ------------------------------------------------------------------------
\* The archive files of the model
\* ------------------------------------------------------------------------

Inner(lat, lon, lensw, lense, lennw) ==
    [selector |-> InnerSelector, lat |-> lat, lon |-> lon,
     lensw |-> lensw, lense |-> lense, lennw |-> lennw, entries |-> <<>>]

Leaf(entries) ==
    [selector |-> Len(entries), lat |-> 0, lon |-> 0,
     lensw |-> 0, lense |-> 0, lennw |-> 0, entries |-> entries]

\* a leaf entry as stored: latitude, longitude, offset in the title file
Entry(lat, lon, off) == [lat |-> lat, lon |-> lon, titleOffset |-> off]

\* a coordinate file made of an inner root whose four children are leaves
\* (a leaf of n entries is 2 + 12 * n bytes long)
QuadTreeFile ==
    (0 :> Inner(0, 0, 14, 2, 14))
    @@ (22 :> Leaf(<<Entry(-10, -10, 0)>>))
    @@ (36 :> Leaf(<<>>))
    @@ (38 :> Leaf(<<Entry(30, -20, 20)>>))
    @@ (52 :> Leaf(<<Entry(48, 2, 41), Entry(20, 10, 62)>>))

\* two coordinate files made of a single leaf; the second entry of the
\* first one points past the end of the title file
LeafFileA ==
    (0 :> Leaf(<<Entry(46, 4, 84), Entry(40, -74, 200)>>))

LeafFileB ==
    (0 :> Leaf(<<Entry(47, 7, 104)>>))

\* the coordinate files of the archives of the model
ArchiveCoordinateFiles == { <<>>, <<QuadTreeFile>>, <<LeafFileA, LeafFileB>> }

\* titles.idx: the names of the records, in file order.  A record is a
\* binary header, the name and a line feed.
TitleNames == <<"Lima", "Quito", "Paris", "Niamey", "Lyon", "Bern">>

TitleHeaderSize == 15

RecordLength(name) == TitleHeaderSize + Len(name) + 1

RECURSIVE RecordOffset(_)
\* offset of the k-th record (k = Len(TitleNames) + 1 gives the file size)
RecordOffset(k) ==
    IF k <= 1 THEN 0 ELSE RecordOffset(k - 1) + RecordLength(TitleNames[k - 1])

TitleFileSize == RecordOffset(Len(TitleNames) + 1)

\* rectangles asked for (the second one is not normalized)
SearchRects ==
    { Rect(0, 44, 10, 6), Rect(12, 50, -34, -32), Rect(-80, 38, 10, 4) }

MaxTitlesValues == (-1) .. MaxMaxTitles

\* a bzip2 block of a data file: where it starts, the length of its
\* compressed form, and the bytes it decompresses to
Block(start, length, text) ==
    [start |-> start, compressedLength |-> length, text |-> text]

\* wikipedia_00.dat: two blocks, then bytes that are no block
DataFile00 ==
    [name |-> "wikipedia_00.dat", size |-> 300000,
     blocks |-> << Block(0, 100000, <<65, 66>>),
                   Block(100000, 150000, <<67, 68, 195, 169>>) >>,
     damaged |-> {}]

\* wikipedia_01.dat: one block, shorter than a chunk
DataFile01 ==
    [name |-> "wikipedia_01.dat", size |-> 100000,
     blocks |-> << Block(0, 100000, <<69, 70>>) >>,
     damaged |-> {}]

\* wikipedia_02.dat: one block, whose compressed data is damaged
DataFile02 ==
    [name |-> "wikipedia_02.dat", size |-> 50000,
     blocks |-> << Block(0, 50000, <<71>>) >>,
     damaged |-> {0}]

\* an empty slot of the array of data files
NoFile == [name |-> "", size |-> 0, blocks |-> <<>>, damaged |-> {}]

\* this._dataFiles after the enumeration of a directory (slots 0 to 2, and
\* slots 0 to 1 of a directory that lacks wikipedia_02.dat), and after the
\* initialization from a list of files that holds wikipedia_01.dat only
\* (slot 0 is left empty)
ArchiveDataFiles ==
    { <<DataFile00, DataFile01, DataFile02>>, <<DataFile00, DataFile01>>,
      <<NoFile, DataFile01>> }

ArticleTitle(name, fileNr, blockStart, blockOffset, articleLength) ==
    [name |-> name, fileNr |-> fileNr, blockStart |-> blockStart,
     blockOffset |-> blockOffset, articleLength |-> articleLength]

\* the titles whose article is read
ArticleTitles ==
    { ArticleTitle("Lima", 0, 0, 0, 2),
      ArticleTitle("Paris", 0, 0, 1, 3),
      ArticleTitle("Quito", 0, 100000, 2, 2),
      ArticleTitle("Lyon", 1, 0, 0, 0),
      ArticleTitle("Bern", 1, 0, 1, 5),
      ArticleTitle("Niamey", 0, 250000, 0, 1),
      ArticleTitle("Oslo", 2, 0, 0, 1) }

NullArticleTitle == ArticleTitle("", -1, 0, 0, 0)

\* ------------------------------------------------------------------------
\* State
\* ------------------------------------------------------------------------

VARIABLES
    coordinateFiles,    \* this._coordinateFiles
    callbackCounterForTitlesInCoordsSearch,
    searches,           \* the invocations of getTitlesInCoords, by number
    nextSearch,         \* number of the next invocation
    reads,              \* coordinate-file reads issued and not completed
    chains,             \* runs of readTitlesFromTitleCoordsInTitleFile
    callbackRuns,       \* runs of callbackGetTitlesInCoordsInt
    deliveries,         \* calls of the user callback of getTitlesInCoords
    alerts,             \* number of alerts raised, by kind
    nearbyRect,         \* the rectangle the application searches
    nearbyMaxTitles,    \* the maxTitles the application asks for
    dataFiles,          \* this._dataFiles
    sessions,           \* the calls of readArticle, by number
    nextSession,        \* number of the next call of readArticle
    onmessage,          \* webworkerBzip2.onmessage: the closure installed
    workerInbox,        \* messages posted to the worker, not yet handled
    workerOutbox,       \* messages posted by the worker, not yet handled
    callbacks,          \* calls of the callback of each readArticle
    consumed,           \* which session's handler took which reply
    archive,            \* the other fields of the LocalArchive
    directory,          \* the files of the archive directory of the storage
    storageFault,       \* the path the storage fails to read, if any
    requests,           \* storage.get calls not answered yet
    metadataReaders,    \* reads of readMetadataFile not completed
    initAlerts,         \* number of alerts raised by the initialization
    initCallbacks,      \* calls of the callback of initializeFromArchiveFiles
    lastParsed,         \* the metadata read that completed last
    flatInits,          \* number of calls of initializeFromArchiveFiles
    deviceInit,         \* initializeFromDeviceStorage has been called
    titleIndex,         \* the records of this._titleFile
    lookup,             \* the title query in progress
    mathIndexFile,      \* the entries of this._mathIndexFile
    mathDataFile,       \* the bytes of this._mathDataFile
    mathLookup,         \* the call of loadMathImage in progress
    redirect,           \* the calls of resolveRedirect on a title
    outgoingMessagePort, \* the port of the service worker to the application
    fetchListeners,     \* the listeners of the service worker for 'fetch'
    messageEvents,      \* number of message events the service worker got
    fetches,            \* the fetch events dispatched, with their outcome
    appInbox,           \* the messages posted to the application
    portInbox           \* the replies of the application not yet delivered

searchVars == <<coordinateFiles, callbackCounterForTitlesInCoordsSearch,
                searches, nextSearch, reads, chains, callbackRuns,
                deliveries, alerts, nearbyRect, nearbyMaxTitles>>

articleVars == <<dataFiles, sessions, nextSession, onmessage, workerInbox,
                 workerOutbox, callbacks, consumed>>

searchRest == <<callbackCounterForTitlesInCoordsSearch, searches, nextSearch,
                reads, chains, callbackRuns, deliveries, alerts, nearbyRect,
                nearbyMaxTitles>>

articleRest == <<sessions, nextSession, onmessage, workerInbox, workerOutbox,
                 callbacks, consumed>>

initVars == <<archive, directory, storageFault, requests, metadataReaders, initAlerts, initCallbacks, lastParsed,
              flatInits, deviceInit>>

titleVars == <<titleIndex, lookup>>

mathVars == <<mathIndexFile, mathDataFile, mathLookup>>

redirectVars == <<redirect>>

serviceWorkerVars == <<outgoingMessagePort, fetchListeners, messageEvents,
                       fetches, appInbox, portInbox>>

vars == <<searchVars, articleVars, initVars, titleVars, mathVars,
                   redirectVars,
                   serviceWorkerVars>>

NoSearch ==
    [status |-> "none", targetRect |-> Rect(0, 0, 0, 0), maxTitles |-> 0,
     titlePositionsFound |-> <<>>, issued |-> 0]

NoReader == [busy |-> FALSE, onload |-> 0, blob |-> 0]

NoSession ==
    [status |-> "none", title |-> NullArticleTitle, dataFile |-> 0,
     reader |-> NoReader, readLengths |-> <<>>]

NoHandler == [session |-> 0, readLength |-> 0]

\* the fields of a LocalArchive after its construction, the arrays of
\* data files and of coordinate files apart
NewArchive ==
    [titleFile |-> NoFile, mathIndexFile |-> NoFile, mathDataFile |-> NoFile,
     date |-> "", language |-> "", titleSearchFile |-> NoFile,
     normalizedTitles |-> TRUE]

\* the storage requests whose failure is reported by an alert
AlertKinds == {"title", "data", "coordinate", "mathIndex", "mathData",
               "metadata"}

NoAlerts == [k \in AlertKinds |-> 0]

NoParse ==
    [file |-> NoFile, callback |-> FALSE, called |-> FALSE, threw |-> FALSE]

\* loadMathImage has not been called
NoMathLookup ==
    [status |-> "none", hexString |-> "", lo |-> 0, hi |-> 0, probes |-> <<>>,
     pos |-> 0, length |-> 0, results |-> <<>>]

\* var outgoingMessagePort = null
NullPort == 0

\* resolveRedirect has not been called
NoRedirect ==
    [status |-> "none", given |-> NullArticleTitle, title |-> NullArticleTitle,
     before |-> NullArticleTitle, calls |-> 0, results |-> <<>>,
     alerts |-> 0]

\* no title query has been made
NoLookup ==
    [status |-> "none", kind |-> "", query |-> "", prefix |-> "",
     maxSize |-> 0, start |-> -1, offset |-> -1, titles |-> <<>>,
     results |-> <<>>]

SearchIds == 1 .. MaxInvocations

ArticleIds == 1 .. MaxArticles

\* an archive whose coordinate files are searched; no article is read
InitSearch ==
    /\ coordinateFiles \in ArchiveCoordinateFiles
    /\ callbackCounterForTitlesInCoordsSearch = 0
    /\ searches = [s \in SearchIds |-> NoSearch]
    /\ nextSearch = 1
    /\ reads = {}
    /\ chains = <<>>
    /\ callbackRuns = {}
    /\ deliveries = [s \in SearchIds |-> <<>>]
    /\ alerts = [retry |-> 0, noTitle |-> 0]
    /\ nearbyRect \in SearchRects
    /\ nearbyMaxTitles \in MaxTitlesValues
    /\ dataFiles = <<DataFile00, DataFile01>>
    /\ sessions = [a \in ArticleIds |-> NoSession]
    /\ nextSession = 1
    /\ onmessage = NoHandler
    /\ workerInbox = <<>>
    /\ workerOutbox = <<>>
    /\ callbacks = [a \in ArticleIds |-> <<>>]
    /\ consumed = {}
    /\ archive = NewArchive
    /\ directory = <<>>
    /\ storageFault = ""
    /\ requests = {}
    /\ metadataReaders = <<>>
    /\ initAlerts = NoAlerts
    /\ initCallbacks = 0
    /\ lastParsed = NoParse
    /\ flatInits = 0
    /\ deviceInit = FALSE
    /\ titleIndex = <<>>
    /\ lookup = NoLookup
    /\ mathIndexFile = <<>>
    /\ mathDataFile = <<>>
    /\ mathLookup = NoMathLookup
    /\ redirect = NoRedirect
    /\ outgoingMessagePort = NullPort
    /\ fetchListeners = <<>>
    /\ messageEvents = 0
    /\ fetches = <<>>
    /\ appInbox = <<>>
    /\ portInbox = {}

\* an archive whose articles are read; no search is made
InitArticle ==
    /\ dataFiles \in ArchiveDataFiles
    /\ sessions = [a \in ArticleIds |-> NoSession]
    /\ nextSession = 1
    /\ onmessage = NoHandler
    /\ workerInbox = <<>>
    /\ workerOutbox = <<>>
    /\ callbacks = [a \in ArticleIds |-> <<>>]
    /\ consumed = {}
    /\ coordinateFiles = <<>>
    /\ callbackCounterForTitlesInCoordsSearch = 0
    /\ searches = [s \in SearchIds |-> NoSearch]
    /\ nextSearch = 1
    /\ reads = {}
    /\ chains = <<>>
    /\ callbackRuns = {}
    /\ deliveries = [s \in SearchIds |-> <<>>]
    /\ alerts = [retry |-> 0, noTitle |-> 0]
    /\ nearbyRect = Rect(0, 0, 0, 0)
    /\ nearbyMaxTitles = 0
    /\ archive = NewArchive
    /\ directory = <<>>
    /\ storageFault = ""
    /\ requests = {}
    /\ metadataReaders = <<>>
    /\ initAlerts = NoAlerts
    /\ initCallbacks = 0
    /\ lastParsed = NoParse
    /\ flatInits = 0
    /\ deviceInit = FALSE
    /\ titleIndex = <<>>
    /\ lookup = NoLookup
    /\ mathIndexFile = <<>>
    /\ mathDataFile = <<>>
    /\ mathLookup = NoMathLookup
    /\ redirect = NoRedirect
    /\ outgoingMessagePort = NullPort
    /\ fetchListeners = <<>>
    /\ messageEvents = 0
    /\ fetches = <<>>
    /\ appInbox = <<>>
    /\ portInbox = {}

\* ------------------------------------------------------------------------
\* Title index iterator (titleIterators.SequentialTitleIterator)
\* ------------------------------------------------------------------------

NullTitle == [name |-> "", titleOffset |-> -1, geolocation |-> Point(0, 0)]

\* the record starting at offset, or NullTitle at the end of the index
Advance(offset) ==
    IF \E k \in 1 .. Len(TitleNames) : RecordOffset(k) = offset
    THEN LET k == CHOOSE j \in 1 .. Len(TitleNames) : RecordOffset(j) = offset
         IN  [name |-> TitleNames[k], titleOffset |-> offset,
              geolocation |-> Point(0, 0)]
    ELSE NullTitle

\* position of the iterator after reading the record at offset
AfterRecord(offset) ==
    LET k == CHOOSE j \in 1 .. Len(TitleNames) : RecordOffset(j) = offset
    IN  offset + RecordLength(TitleNames[k])

RECURSIVE AddNext(_, _, _)
AddNext(offset, titleCount, titles) ==
    IF Len(titles) >= titleCount THEN titles
    ELSE LET title == Advance(offset)
         IN  IF title = NullTitle THEN titles
             ELSE AddNext(AfterRecord(offset), titleCount, Append(titles, title))

GetTitlesStartingAtOffset(titleOffset, titleCount) ==
    AddNext(titleOffset, titleCount, <<>>)

\* ------------------------------------------------------------------------
\* Spatial search
\* ------------------------------------------------------------------------

\* reads latitude first, longitude second; the point is (long, lat)
ReadCoordinates(e) == Point(e.lon, e.lat)

\* the guard of getTitlesInCoords: a search seems to be running
SearchRejected == callbackCounterForTitlesInCoordsSearch > 0

\* value given to the counter when an invocation is rejected
CounterAfterRejectNotReset == callbackCounterForTitlesInCoordsSearch
CounterAfterReject == 0

GetTitlesInCoords(rect, maxTitles) ==
    /\ nextSearch <= MaxInvocations
    /\ nextSearch' = nextSearch + 1
    /\ IF SearchRejected
       THEN /\ alerts' = [alerts EXCEPT !.retry = @ + 1]
            /\ callbackCounterForTitlesInCoordsSearch' = CounterAfterReject
            /\ searches' = [searches EXCEPT ![nextSearch].status = "rejected"]
            /\ UNCHANGED reads
       ELSE LET normalizedRectangle == Normalized(rect)
                files == 0 .. (Len(coordinateFiles) - 1)
            IN  /\ callbackCounterForTitlesInCoordsSearch' =
                       callbackCounterForTitlesInCoordsSearch + Cardinality(files)
                /\ reads' = reads \cup
                       { [search |-> nextSearch, coordinateFileIndex |-> i,
                          coordFilePos |-> 0, thisRect |-> GLOBE_RECTANGLE]
                         : i \in files }
                /\ searches' = [searches EXCEPT ![nextSearch] =
                       [status |-> "accepted",
                        targetRect |-> normalizedRectangle,
                        maxTitles |-> maxTitles,
                        titlePositionsFound |-> <<>>,
                        issued |-> Cardinality(files)]]
                /\ UNCHANGED alerts
    /\ UNCHANGED <<coordinateFiles, chains, callbackRuns, deliveries,
                   nearbyRect, nearbyMaxTitles, articleVars, initVars,
                   titleVars, mathVars,
                   redirectVars,
                   serviceWorkerVars>>

\* the search is over: convert the title positions into titles, or deliver
\* the empty list at once
CallbackGetTitlesInCoordsInt(search, titlePositionsFound, outstanding) ==
    /\ callbackRuns' = callbackRuns \cup
           {[search |-> search, outstanding |-> outstanding]}
    /\ IF Len(titlePositionsFound) > 0
       THEN /\ chains' = Append(chains, [search |-> search, i |-> 0,
                                         titlesFound |-> <<>>,
                                         status |-> "reading"])
            /\ UNCHANGED deliveries
       ELSE /\ deliveries' = [deliveries EXCEPT
                                   ![search] = Append(@, titlePositionsFound)]
            /\ UNCHANGED chains

\* the completion handlers stop once enough titles are found
EnoughTitlesExceeded(maxTitles, titlePositionsFound) ==
    maxTitles >= 0 /\ Len(titlePositionsFound) > maxTitles
EnoughTitles(maxTitles, titlePositionsFound) ==
    maxTitles >= 0 /\ Len(titlePositionsFound) >= maxTitles

\* the test before a leaf entry is pushed
LeafPushAllowedOffByOne(maxTitles, titlePositionsFound) ==
    maxTitles >= 0 /\ Len(titlePositionsFound) <= maxTitles
LeafPushAllowed(maxTitles, titlePositionsFound) ==
    maxTitles >= 0 /\ Len(titlePositionsFound) < maxTitles

\* the test of a leaf entry against the target rectangle
EntryInTarget(targetRect, articleCoordinates) ==
    ContainsPoint(targetRect, articleCoordinates)

RECURSIVE LeafLoop(_, _, _, _, _)
\* the loop over the entries of a leaf node, from entry i (0-based)
LeafLoop(node, i, targetRect, maxTitles, titlePositionsFound) ==
    IF i >= node.selector THEN titlePositionsFound
    ELSE LET e == node.entries[i + 1]
             articleCoordinates == ReadCoordinates(e)
             title_pos == e.titleOffset
         IN  IF ~EntryInTarget(targetRect, articleCoordinates)
             THEN LeafLoop(node, i + 1, targetRect, maxTitles, titlePositionsFound)
             ELSE IF LeafPushAllowed(maxTitles, titlePositionsFound)
             THEN LeafLoop(node, i + 1, targetRect, maxTitles,
                           Append(titlePositionsFound,
                                  [titleOffset |-> title_pos,
                                   geolocation |-> articleCoordinates]))
             ELSE LeafLoop(node, i + 1, targetRect, maxTitles, titlePositionsFound)

\* the reads issued by the completion handler of an inner node
ChildReads(r, node, targetRect) ==
    LET center == ReadCoordinates(node)
        pos0 == r.coordFilePos + InnerNodeSize
        pos1 == pos0 + node.lensw
        pos2 == pos1 + node.lense
        pos3 == pos2 + node.lennw
        rectSW == Normalized(RectFromPoints(RectSW(r.thisRect), center))
        rectNE == Normalized(RectFromPoints(RectNE(r.thisRect), center))
        rectSE == Normalized(RectFromPoints(RectSE(r.thisRect), center))
        rectNW == Normalized(RectFromPoints(RectNW(r.thisRect), center))
        child(pos, rect) == [search |-> r.search,
                             coordinateFileIndex |-> r.coordinateFileIndex,
                             coordFilePos |-> pos, thisRect |-> rect]
    IN  (IF Intersect(targetRect, rectSW) THEN {child(pos0, rectSW)} ELSE {})
        \cup (IF Intersect(targetRect, rectSE) THEN {child(pos1, rectSE)} ELSE {})
        \cup (IF Intersect(targetRect, rectNW) THEN {child(pos2, rectNW)} ELSE {})
        \cup (IF Intersect(targetRect, rectNE) THEN {child(pos3, rectNE)} ELSE {})

\* reader.onload of getTitlesInCoordsInt, for the read r
ReaderOnload(r) ==
    /\ r \in reads
    /\ LET s == searches[r.search]
           node == coordinateFiles[r.coordinateFileIndex + 1][r.coordFilePos]
           enough == EnoughTitles(s.maxTitles, s.titlePositionsFound)
           inner == node.selector = InnerSelector
           children == IF enough \/ ~inner THEN {}
                       ELSE ChildReads(r, node, s.targetRect)
           found == IF enough \/ inner THEN s.titlePositionsFound
                    ELSE LeafLoop(node, 0, s.targetRect, s.maxTitles,
                                  s.titlePositionsFound)
           counter == callbackCounterForTitlesInCoordsSearch - 1
                          + Cardinality(children)
           remaining == (reads \ {r}) \cup children
       IN  /\ callbackCounterForTitlesInCoordsSearch' = counter
           /\ reads' = remaining
           /\ searches' = [searches EXCEPT
                  ![r.search].titlePositionsFound = found,
                  ![r.search].issued = @ + Cardinality(children)]
           /\ IF counter = 0
              THEN CallbackGetTitlesInCoordsInt(r.search, found,
                       Cardinality({x \in remaining : x.search = r.search}))
              ELSE UNCHANGED <<chains, callbackRuns, deliveries>>
    /\ UNCHANGED <<coordinateFiles, nextSearch, alerts, nearbyRect,
                   nearbyMaxTitles, articleVars, initVars,
                   titleVars, mathVars,
                   redirectVars,
                   serviceWorkerVars>>

RECURSIVE InsertByDistance(_, _, _)
\* title inserted after the titles of sorted that are not farther away
InsertByDistance(currentPosition, sorted, title) ==
    IF sorted = <<>> THEN <<title>>
    ELSE IF Distance(currentPosition, title.geolocation)
              < Distance(currentPosition, Head(sorted).geolocation)
         THEN <<title>> \o sorted
         ELSE <<Head(sorted)>>
              \o InsertByDistance(currentPosition, Tail(sorted), title)

RECURSIVE SortFrom(_, _, _)
SortFrom(currentPosition, titles, sorted) ==
    IF titles = <<>> THEN sorted
    ELSE SortFrom(currentPosition, Tail(titles),
                  InsertByDistance(currentPosition, sorted, Head(titles)))

\* titlesFound.sort(...) by distance from the centre of the target rectangle
SortedTitlesFoundUnsorted(targetRect, titlesFound) == titlesFound
SortedTitlesFound(targetRect, titlesFound) ==
    SortFrom(Center(targetRect), titlesFound, <<>>)

\* the callback of the single-title read of the chain c
TitleReadDone(c) ==
    /\ c \in 1 .. Len(chains)
    /\ chains[c].status = "reading"
    /\ LET ch == chains[c]
           s == searches[ch.search]
           titleOffset == s.titlePositionsFound[ch.i + 1].titleOffset
           geolocation == s.titlePositionsFound[ch.i + 1].geolocation
           titleList == GetTitlesStartingAtOffset(titleOffset, 1)
       IN  IF Len(titleList) = 1
           THEN LET title == [titleList[1] EXCEPT !.geolocation = geolocation]
                    titlesFound == Append(ch.titlesFound, title)
                    i == ch.i + 1
                IN  IF i < Len(s.titlePositionsFound)
                    THEN /\ chains' = [chains EXCEPT ![c].i = i,
                                                     ![c].titlesFound = titlesFound]
                         /\ UNCHANGED <<deliveries, alerts>>
                    ELSE /\ deliveries' = [deliveries EXCEPT ![ch.search] =
                              Append(@, SortedTitlesFound(s.targetRect, titlesFound))]
                         /\ chains' = [chains EXCEPT ![c].i = i,
                                                     ![c].titlesFound = <<>>,
                                                     ![c].status = "done"]
                         /\ UNCHANGED alerts
           ELSE /\ alerts' = [alerts EXCEPT !.noTitle = @ + 1]
                /\ chains' = [chains EXCEPT ![c].titlesFound = <<>>,
                                            ![c].status = "failed"]
                /\ UNCHANGED deliveries
    /\ UNCHANGED <<coordinateFiles, callbackCounterForTitlesInCoordsSearch,
                   searches, nextSearch, reads, callbackRuns, nearbyRect,
                   nearbyMaxTitles, articleVars, initVars,
                   titleVars, mathVars,
                   redirectVars,
                   serviceWorkerVars>>

\* ------------------------------------------------------------------------
\* The bzip2 codec (js/lib/webworker_bzip2.js)
\* ------------------------------------------------------------------------

Min(a, b) == IF a < b THEN a ELSE b

RECURSIVE TextOfBlocks(_, _, _)
\* the text of the blocks of file that lie whole between position pos and
\* position end, from the block that starts at pos on
TextOfBlocks(file, pos, end) ==
    IF \E k \in 1 .. Len(file.blocks) :
           /\ file.blocks[k].start = pos
           /\ pos + file.blocks[k].compressedLength <= end
    THEN LET k == CHOOSE j \in 1 .. Len(file.blocks) : file.blocks[j].start = pos
         IN  file.blocks[k].text
             \o TextOfBlocks(file, pos + file.blocks[k].compressedLength, end)
    ELSE <<>>

Reply(cmd, text, message) == [cmd |-> cmd, text |-> text, message |-> message]

\* the reply of the codec to the bytes [start, start + length) of file
Uncompress(file, start, length) ==
    LET end == Min(start + length, file.size)
    IN  IF ~\E k \in 1 .. Len(file.blocks) : file.blocks[k].start = start
        THEN Reply("error", <<>>, "No magic number found")
        ELSE LET k == CHOOSE j \in 1 .. Len(file.blocks) :
                          file.blocks[j].start = start
             IN  IF start + file.blocks[k].compressedLength > end
                 THEN Reply("recurse", <<>>, "")
                 ELSE IF start \in file.damaged
                 THEN Reply("error", <<>>, "Data error")
                 ELSE Reply("result", TextOfBlocks(file, start, end), "")

\* the whole text a reader of the block at start can ever obtain
FullText(file, start) == TextOfBlocks(file, start, file.size)

\* ------------------------------------------------------------------------
\* String helpers
\* ------------------------------------------------------------------------

\* String.prototype.substring(from, to) for 0 <= from <= to
Substring(str, from, to) ==
    SubSeq(str, Min(from, Len(str)) + 1, Min(to, Len(str)))

IsContinuation(b) == b >= 128 /\ b <= 191

RECURSIVE Utf8Malformed(_)
\* decodeURIComponent(escape(str)) throws URIError on these byte strings
\* (sequences of one and of two bytes are modelled)
Utf8Malformed(bytes) ==
    IF bytes = <<>> THEN FALSE
    ELSE IF Head(bytes) < 128 THEN Utf8Malformed(Tail(bytes))
    ELSE IF /\ Head(bytes) >= 194
            /\ Head(bytes) <= 223
            /\ Len(bytes) >= 2
            /\ IsContinuation(bytes[2])
         THEN Utf8Malformed(Tail(Tail(bytes)))
         ELSE TRUE

RECURSIVE Utf8Decode(_)
\* decodeURIComponent(escape(str)): the characters of a UTF-8 byte string
Utf8Decode(bytes) ==
    IF bytes = <<>> THEN <<>>
    ELSE IF Head(bytes) < 128
         THEN <<Head(bytes)>> \o Utf8Decode(Tail(bytes))
         ELSE <<(Head(bytes) - 192) * 64 + (bytes[2] - 128)>>
              \o Utf8Decode(Tail(Tail(bytes)))

\* new RegExp(expectedFileName + "$").test(fileName): the dot of the
\* pattern matches any character
MatchesAtEnd(expectedFileName, fileName) ==
    /\ Len(fileName) >= Len(expectedFileName)
    /\ \A i \in 1 .. Len(expectedFileName) :
           LET p == SubSeq(expectedFileName, i, i)
               j == Len(fileName) - Len(expectedFileName) + i
           IN  p = "." \/ p = SubSeq(fileName, j, j)

\* ------------------------------------------------------------------------
\* Article reader
\* ------------------------------------------------------------------------

ExpectedFileName(fileNr) ==
    LET prefixedFileNumber ==
            IF fileNr < 10 THEN "0" \o ToString(fileNr) ELSE ToString(fileNr)
    IN  "wikipedia_" \o prefixedFileNumber \o ".dat"

\* what the article session reads next when its slice is not available
NextReadLength(readLength) == readLength + CHUNK_SIZE

\* readArticleChunk: the session after reader.onload is set and the read of
\* [blockStart, blockStart + readLength) is started; readAsArrayBuffer
\* throws when the reader is still reading
ReadArticleChunk(session, readLength) ==
    IF session.reader.busy
    THEN [session EXCEPT !.reader.onload = readLength, !.status = "threw"]
    ELSE [session EXCEPT !.reader = [busy |-> TRUE, onload |-> readLength,
                                     blob |-> readLength],
                         !.readLengths = Append(@, readLength)]

ReadArticle(title) ==
    /\ nextSession <= MaxArticles
    /\ nextSession' = nextSession + 1
    /\ LET expectedFileName == ExpectedFileName(title.fileNr)
           hole == \E i \in 1 .. Len(dataFiles) : dataFiles[i] = NoFile
           matching == {i \in 1 .. Len(dataFiles) :
                            MatchesAtEnd(expectedFileName, dataFiles[i].name)}
           started == [NoSession EXCEPT !.title = title]
       IN  sessions' = [sessions EXCEPT ![nextSession] =
               IF hole THEN [started EXCEPT !.status = "typeError"]
               ELSE IF matching = {}
               THEN [started EXCEPT !.status = "missingShard"]
               ELSE LET dataFile == CHOOSE i \in matching :
                                        \A j \in matching : j <= i
                    IN  ReadArticleChunk([started EXCEPT !.status = "reading",
                                                         !.dataFile = dataFile],
                                         CHUNK_SIZE)]
    /\ UNCHANGED <<dataFiles, onmessage, workerInbox, workerOutbox, callbacks,
                   consumed, searchVars, initVars,
                   titleVars, mathVars,
                   redirectVars,
                   serviceWorkerVars>>

\* reader.onload of readArticleChunk, for the session a
ArticleReaderOnload(a) ==
    /\ sessions[a].reader.busy
    /\ onmessage' = [session |-> a, readLength |-> sessions[a].reader.onload]
    /\ workerInbox' = Append(workerInbox,
           [session |-> a, dataFile |-> sessions[a].dataFile,
            start |-> sessions[a].title.blockStart,
            length |-> sessions[a].reader.blob, debugged |-> FALSE])
    /\ sessions' = [sessions EXCEPT ![a].reader.busy = FALSE]
    /\ UNCHANGED <<dataFiles, nextSession, workerOutbox, callbacks, consumed,
                   searchVars, initVars,
                   titleVars, mathVars,
                   redirectVars,
                   serviceWorkerVars>>

\* the worker posts a debug message while it handles a request
WorkerDebug ==
    /\ workerInbox # <<>>
    /\ ~Head(workerInbox).debugged
    /\ workerInbox' = [workerInbox EXCEPT ![1].debugged = TRUE]
    /\ workerOutbox' = Append(workerOutbox,
           [request |-> Head(workerInbox).session,
            reply |-> Reply("debug", <<>>, "debug")])
    /\ UNCHANGED <<dataFiles, sessions, nextSession, onmessage, callbacks,
                   consumed, searchVars, initVars,
                   titleVars, mathVars,
                   redirectVars,
                   serviceWorkerVars>>

\* the worker handles the oldest uncompress request and posts its reply
WorkerUncompress ==
    /\ workerInbox # <<>>
    /\ LET m == Head(workerInbox)
       IN  workerOutbox' = Append(workerOutbox,
               [request |-> m.session,
                reply |-> Uncompress(dataFiles[m.dataFile], m.start, m.length)])
    /\ workerInbox' = Tail(workerInbox)
    /\ UNCHANGED <<dataFiles, sessions, nextSession, onmessage, callbacks,
                   consumed, searchVars, initVars,
                   titleVars, mathVars,
                   redirectVars,
                   serviceWorkerVars>>

Callback(title, raw, content, message) ==
    [title |-> title, raw |-> raw, content |-> content, message |-> message]

\* the test of the slice of a result against the length of the article
SliceComplete(htmlArticle, title) == Len(htmlArticle) >= title.articleLength

\* webworkerBzip2.onmessage: the closure installed last handles the oldest
\* message of the worker
WorkerOnMessage ==
    /\ workerOutbox # <<>>
    /\ workerOutbox' = Tail(workerOutbox)
    /\ LET m == Head(workerOutbox)
           a == onmessage.session
           title == sessions[a].title
           readLength == onmessage.readLength
           htmlArticle == Substring(m.reply.text, title.blockOffset,
                                    title.blockOffset + title.articleLength)
           more == NextReadLength(readLength) <= MaxReadChunks * CHUNK_SIZE
       IN  /\ consumed' = IF m.reply.cmd = "debug" THEN consumed
                          ELSE consumed \cup {[request |-> m.request, by |-> a]}
           /\ CASE m.reply.cmd = "result" /\ SliceComplete(htmlArticle, title) ->
                    /\ callbacks' =
                         IF Utf8Malformed(htmlArticle) THEN callbacks
                         ELSE [callbacks EXCEPT ![a] = Append(@,
                                  Callback(title, htmlArticle,
                                           Utf8Decode(htmlArticle), ""))]
                    /\ UNCHANGED sessions
                [] \/ m.reply.cmd = "recurse"
                   \/ m.reply.cmd = "result" /\ ~SliceComplete(htmlArticle, title) ->
                    /\ sessions' = [sessions EXCEPT ![a] =
                         IF more
                         THEN ReadArticleChunk(@, NextReadLength(readLength))
                         ELSE [@ EXCEPT !.status = "beyondBound"]]
                    /\ UNCHANGED callbacks
                [] m.reply.cmd = "debug" ->
                    UNCHANGED <<sessions, callbacks>>
                [] m.reply.cmd = "error" ->
                    /\ callbacks' = [callbacks EXCEPT ![a] = Append(@,
                         Callback(NullArticleTitle, <<>>, <<>>,
                             IF m.reply.message = "No magic number found"
                             THEN "this article can not be displayed for now"
                             ELSE "unexpected error during bzip2 decompression"))]
                    /\ UNCHANGED sessions
    /\ UNCHANGED <<dataFiles, nextSession, onmessage, workerInbox, searchVars, initVars,
                   titleVars, mathVars,
                   redirectVars,
                   serviceWorkerVars>>

\* ------------------------------------------------------------------------
\* Specifications
\* ------------------------------------------------------------------------

NextSearch ==
    \/ GetTitlesInCoords(nearbyRect, nearbyMaxTitles)
    \/ \E r \in reads : ReaderOnload(r)
    \/ \E c \in 1 .. Len(chains) : TitleReadDone(c)


NextArticle ==
    \/ \E title \in ArticleTitles : ReadArticle(title)
    \/ \E a \in ArticleIds : ArticleReaderOnload(a)
    \/ WorkerDebug
    \/ WorkerUncompress
    \/ WorkerOnMessage

\* the spatial searches of an archive
SpecSearch == InitSearch /\ [][NextSearch]_vars

\* the article sessions of an archive
SpecArticle == InitArticle /\ [][NextArticle]_vars

\* ------------------------------------------------------------------------
\* Properties of the spatial search
\* ------------------------------------------------------------------------

Delivered(s) == Len(deliveries[s]) > 0

\* accepted, has issued coordinate reads, and has not delivered yet
InFlight(s) ==
    /\ searches[s].status = "accepted"
    /\ searches[s].issued > 0
    /\ ~Delivered(s)

\* the leaf entries of the coordinate files of the archive
AllEntries ==
    UNION { UNION { { coordinateFiles[f][pos].entries[i]
                      : i \in 1 .. Len(coordinateFiles[f][pos].entries) }
                    : pos \in DOMAIN coordinateFiles[f] }
            : f \in 1 .. Len(coordinateFiles) }

EntriesInTarget(s) ==
    {e \in AllEntries : ContainsPoint(searches[s].targetRect, ReadCoordinates(e))}

IsSortedByDistance(currentPosition, titles) ==
    \A j \in 1 .. (Len(titles) - 1) :
        Distance(currentPosition, titles[j].geolocation)
            <= Distance(currentPosition, titles[j + 1].geolocation)

\* C1: at no time are two getTitlesInCoords invocations in flight together:
\* at most one invocation has been accepted (has issued coordinate reads)
\* and has not yet delivered its result to its callback.
C1_AtMostOneSearchInFlight ==
    Cardinality({s \in SearchIds : InFlight(s)}) <= 1

\* C2: the dereference-and-deliver step of a search
\* (callbackGetTitlesInCoordsInt) runs only in a state where no
\* coordinate-file read issued by that search is still outstanding.
C2_CallbackRunsWithNoReadOutstanding ==
    \A run \in callbackRuns : run.outstanding = 0

\* C3: an invocation made while the counter is greater than 0 is rejected:
\* it issues no coordinate-file read, never invokes its callback, emits the
\* retry alert and leaves the counter equal to 0.
C3_RejectedInvocation ==
    [][ /\ (nextSearch' = nextSearch + 1
              /\ callbackCounterForTitlesInCoordsSearch > 0)
           => /\ searches'[nextSearch].status = "rejected"
              /\ reads' = reads
              /\ chains' = chains
              /\ deliveries' = deliveries
              /\ alerts'.retry = alerts.retry + 1
              /\ callbackCounterForTitlesInCoordsSearch' = 0
        /\ \A s \in SearchIds :
              searches'[s].status = "rejected"
              => /\ \A r \in reads' : r.search # s
                 /\ \A c \in 1 .. Len(chains') : chains'[c].search # s
                 /\ \A run \in callbackRuns' : run.search # s
                 /\ deliveries'[s] = <<>>
                 /\ searches'[s].issued = 0
      ]_vars

\* C3 witness: an invocation was rejected while reads of an earlier search
\* were outstanding, and the counter is 0
C3_Witness ==
    /\ \E s \in SearchIds : searches[s].status = "rejected"
    /\ alerts.retry >= 1
    /\ callbackCounterForTitlesInCoordsSearch = 0
    /\ reads # {}

\* C4: in every reachable state the counter equals the number of
\* coordinate-file reads issued and not yet completed; in particular it is
\* never negative.
C4_CounterCountsOutstandingReads ==
    /\ callbackCounterForTitlesInCoordsSearch = Cardinality(reads)
    /\ callbackCounterForTitlesInCoordsSearch >= 0

\* C5: with maxTitles = -1 the search is unbounded: every leaf entry whose
\* coordinates lie inside the normalized rectangle appears in the delivered
\* list.
C5_UnboundedCollectsEveryEntry ==
    \A s \in SearchIds :
        \A k \in 1 .. Len(deliveries[s]) :
            searches[s].maxTitles = -1
            => \A e \in EntriesInTarget(s) :
                   \E j \in 1 .. Len(deliveries[s][k]) :
                       /\ deliveries[s][k][j].titleOffset = e.titleOffset
                       /\ deliveries[s][k][j].geolocation = ReadCoordinates(e)

\* C6: for maxTitles >= 0 the number of collected title positions is at
\* most maxTitles in every state, and every delivered list has at most
\* maxTitles titles.
C6_AtMostMaxTitles ==
    \A s \in SearchIds :
        searches[s].maxTitles >= 0
        => /\ Len(searches[s].titlePositionsFound) <= searches[s].maxTitles
           /\ \A k \in 1 .. Len(deliveries[s]) :
                  Len(deliveries[s][k]) <= searches[s].maxTitles
           /\ \A c \in 1 .. Len(chains) :
                  chains[c].search = s
                  => Len(chains[c].titlesFound) <= searches[s].maxTitles

\* C6 witness: a search whose rectangle holds more entries than maxTitles
\* has delivered exactly maxTitles titles
C6_Witness ==
    \E s \in SearchIds :
        /\ searches[s].status = "accepted"
        /\ searches[s].maxTitles >= 1
        /\ Cardinality(EntriesInTarget(s)) > searches[s].maxTitles
        /\ Len(searches[s].titlePositionsFound) = searches[s].maxTitles
        /\ \E k \in 1 .. Len(deliveries[s]) :
               Len(deliveries[s][k]) = searches[s].maxTitles

\* C7: the delivered list is sorted in ascending order of distance from the
\* centre of the normalized rectangle, every delivered geolocation lies
\* within the normalized rectangle, and each delivered title carries the
\* coordinates of the leaf entry whose titleOffset it was read from.
C7_DeliveredSortedAndInside ==
    \A s \in SearchIds :
        \A k \in 1 .. Len(deliveries[s]) :
            LET titles == deliveries[s][k]
            IN  /\ IsSortedByDistance(Center(searches[s].targetRect), titles)
                /\ \A j \in 1 .. Len(titles) :
                       /\ ContainsPoint(searches[s].targetRect,
                                        titles[j].geolocation)
                       /\ \E e \in AllEntries :
                              /\ e.titleOffset = titles[j].titleOffset
                              /\ ReadCoordinates(e) = titles[j].geolocation

\* C7 witness: a list of at least two titles was delivered by a search that
\* had collected them in another order than the order of distance
C7_Witness ==
    \E s \in SearchIds :
        /\ \E k \in 1 .. Len(deliveries[s]) : Len(deliveries[s][k]) >= 2
        /\ ~IsSortedByDistance(Center(searches[s].targetRect),
                               searches[s].titlePositionsFound)

\* ------------------------------------------------------------------------
\* Properties of the article reader
\* ------------------------------------------------------------------------

\* the calls of the callback of session a that carry a title
Successes(a) ==
    {k \in 1 .. Len(callbacks[a]) : callbacks[a][k].title # NullArticleTitle}

\* the bytes of the article of title in the text of its data file
ArticleSlice(title, dataFile) ==
    Substring(FullText(dataFile, title.blockStart), title.blockOffset,
              title.blockOffset + title.articleLength)

\* C8: readArticle terminates: no read is issued once blockStart +
\* readLength has exceeded the size of the data shard; the operation ends
\* with a fatal error instead of issuing another read.
C8_NoReadPastEndOfShard ==
    \A a \in ArticleIds :
        \A k \in 2 .. Len(sessions[a].readLengths) :
            sessions[a].title.blockStart + sessions[a].readLengths[k - 1]
                <= dataFiles[sessions[a].dataFile].size

\* C9: when readArticle succeeds its callback is invoked exactly once, with
\* the same title and with the slice [blockOffset, blockOffset +
\* articleLength) of the codec output, of length exactly articleLength
\* before UTF-8 decoding.
C9_CallbackOnceWithArticleSlice ==
    \A a \in ArticleIds :
        /\ Cardinality(Successes(a)) <= 1
        /\ \A k \in Successes(a) :
               /\ callbacks[a][k].title = sessions[a].title
               /\ Len(callbacks[a][k].raw) = sessions[a].title.articleLength
               /\ callbacks[a][k].raw =
                      ArticleSlice(sessions[a].title,
                                   dataFiles[sessions[a].dataFile])

\* C10: with two readArticle calls in flight, no codec reply produced for
\* one article is consumed by the session of the other article, and each
\* callback is invoked with its own title and that title's article slice.
C10_NoReplyConsumedByOtherSession ==
    /\ \A c \in consumed : c.request = c.by
    /\ \A a \in ArticleIds :
           \A k \in Successes(a) :
               callbacks[a][k].raw =
                   ArticleSlice(callbacks[a][k].title,
                                dataFiles[sessions[a].dataFile])

\* the reply of the codec to the first request of session a
FirstReply(a) ==
    Uncompress(dataFiles[sessions[a].dataFile], sessions[a].title.blockStart,
               CHUNK_SIZE)

\* the first request of session a got an error reply, and the reply has
\* been handled
ErrorReplyHandled(a) ==
    /\ sessions[a].readLengths # <<>>
    /\ FirstReply(a).cmd = "error"
    /\ \E c \in consumed : c.request = a

\* C11: on a codec error reply the article session ends: its callback is
\* invoked exactly once, with a null title and an error message that is one
\* message for "No magic number found" and another one for every other
\* codec error, and no further read of the data shard is issued.
C11_ErrorReplyEndsSession ==
    \A a \in ArticleIds :
        ErrorReplyHandled(a) =>
            /\ Len(callbacks[a]) = 1
            /\ callbacks[a][1].title = NullArticleTitle
            /\ callbacks[a][1].message =
                   IF FirstReply(a).message = "No magic number found"
                   THEN "this article can not be displayed for now"
                   ELSE "unexpected error during bzip2 decompression"
            /\ Len(sessions[a].readLengths) = 1

\* the chains of the search s that stopped on a title that could not be read
FailedChains(s) ==
    {c \in 1 .. Len(chains) :
        chains[c].search = s /\ chains[c].status = "failed"}

\* C12: every user-visible failure of an archive query also invokes that
\* query's completion callback with a null result: readArticle whose data
\* shard is absent calls its callback with a null title, and a search that
\* found no title at a collected titleOffset calls its callback.
C12_FailureInvokesCallback ==
    /\ \A a \in ArticleIds :
           sessions[a].status = "missingShard" =>
               \E k \in 1 .. Len(callbacks[a]) :
                   callbacks[a][k].title = NullArticleTitle
    /\ \A s \in SearchIds :
           FailedChains(s) # {} => Len(deliveries[s]) >= Cardinality(FailedChains(s))

\* the slots of this._dataFiles that hold the shard a title refers to
StoredShards(title) ==
    {i \in 1 .. Len(dataFiles) :
        /\ dataFiles[i] # NoFile
        /\ dataFiles[i].name = ExpectedFileName(title.fileNr)}

\* C13: in an archive whose data slot 0 is empty (initialised from a flat
\* list that holds wikipedia_01.dat .. wikipedia_K.dat), readArticle for a
\* title whose shard is stored selects the shard named wikipedia_<fileNr>.dat
\* and starts the first read of CHUNK_SIZE bytes at blockStart.
C13_ShardSelectedInFlatListArchive ==
    \A a \in ArticleIds :
        /\ sessions[a].status # "none"
        /\ dataFiles[1] = NoFile
        /\ StoredShards(sessions[a].title) # {}
        => /\ sessions[a].dataFile \in StoredShards(sessions[a].title)
           /\ sessions[a].readLengths # <<>>
           /\ sessions[a].readLengths[1] = CHUNK_SIZE

\* ------------------------------------------------------------------------
\* Metadata file (metadata.txt)
\* ------------------------------------------------------------------------

\* a line of metadata.txt: <<key, value>> is written "key = value", a line
\* of one element is written as it is
LineText(line) ==
    IF Len(line) = 2 THEN line[1] \o " = " \o line[2] ELSE line[1]

\* the text of a metadata.txt made of the given lines: the sequence of its
\* lines, each of which a newline ends
MetadataText(lines) == [k \in 1 .. Len(lines) |-> LineText(lines[k])]

CharAt(str, i) == IF i >= 1 /\ i <= Len(str) THEN SubSeq(str, i, i) ELSE ""

StartsWithAt(str, i, pattern) ==
    /\ i + Len(pattern) - 1 <= Len(str)
    /\ SubSeq(str, i, i + Len(pattern) - 1) = pattern

RECURSIVE TokenEnd(_, _)
\* [^ \n]+ from position i of a line: the position of the last character
\* of the run of characters that are no space (i - 1 if there is none)
TokenEnd(str, i) ==
    IF CharAt(str, i) = "" \/ CharAt(str, i) = " " THEN i - 1
    ELSE TokenEnd(str, i + 1)

\* where the value starts when /\nkey ?\= ?([^ \n]+)/ matches from the
\* newline that precedes the line str, 0 when it does not match there
ValueStart(str, key) ==
    LET a == 1 + Len(key)
        b == IF CharAt(str, a) = " " THEN a + 1 ELSE a
        c == b + 1
        d == IF CharAt(str, c) = " " THEN c + 1 ELSE c
    IN  IF /\ StartsWithAt(str, 1, key)
           /\ CharAt(str, b) = "="
           /\ TokenEnd(str, d) >= d
        THEN d
        ELSE 0

\* the result of exec when the regular expression does not match
NoMatch == [matched |-> FALSE, value |-> ""]

\* the match of /\nkey ?\= ?([^ \n]+)/ from the newline that precedes the
\* line str, and its group 1
MatchLine(str, key) ==
    IF ValueStart(str, key) > 0
    THEN LET d == ValueStart(str, key)
         IN  [matched |-> TRUE, value |-> SubSeq(str, d, TokenEnd(str, d))]
    ELSE NoMatch

RECURSIVE MatchFrom(_, _, _)
\* the first match of /\nkey ?\= ?([^ \n]+)/ in the lines of text from
\* the i-th on
MatchFrom(text, i, key) ==
    IF i > Len(text) THEN NoMatch
    ELSE IF MatchLine(text[i], key).matched THEN MatchLine(text[i], key)
    ELSE MatchFrom(text, i + 1, key)

\* the first line that a newline precedes
FirstLineMatched == 2

\* /\nkey ?\= ?([^ \n]+)/.exec(text): the first match and its group 1; the
\* match starts with the newline that ends the line before
RegexExec(text, key) == MatchFrom(text, FirstLineMatched, key)

\* a metadata.txt of the given lines, and the text that readAsText gives
MetadataFile(lines) ==
    [name |-> "metadata.txt", lines |-> lines, text |-> MetadataText(lines)]

\* metadata.txt files: with a header line, as in the spec scenario (no
\* header line), without normalized_titles, and with normalized_titles
\* on the first line
MetadataWithHeader ==
    MetadataFile(<< <<"[dump]">>, <<"language", "en">>,
                    <<"date", "2014-06-01">>, <<"normalized_titles", "0">> >>)

MetadataOfScenario ==
    MetadataFile(<< <<"language", "en">>, <<"date", "2014-06-01">>,
                    <<"normalized_titles", "0">> >>)

MetadataWithoutNormalized ==
    MetadataFile(<< <<"[dump]">>, <<"date", "2013-01-01">>,
                    <<"language", "fr">> >>)

MetadataNormalizedFirst ==
    MetadataFile(<< <<"normalized_titles", "0">>, <<"date", "2012-05-05">>,
                    <<"language", "de">> >>)

MetadataFiles ==
    { MetadataWithHeader, MetadataOfScenario, MetadataWithoutNormalized,
      MetadataNormalizedFirst }

\* the three exec calls of readMetadataFile, on the text of each file
MetadataMatches ==
    [file \in MetadataFiles |->
        [language |-> RegexExec(file.text, "language"),
         date |-> RegexExec(file.text, "date"),
         normalizedTitlesInt |-> RegexExec(file.text, "normalized_titles")]]

\* reader.onload of readMetadataFile: the fields of the archive after the
\* text of file is parsed, and whether the parse ended with a TypeError:
\* exec(...)[1] throws when the expression does not match
ParseMetadata(a, file) ==
    LET language == MetadataMatches[file].language
        date == MetadataMatches[file].date
        normalizedTitlesInt == MetadataMatches[file].normalizedTitlesInt
    IN  IF ~language.matched THEN [archive |-> a, threw |-> TRUE]
        ELSE IF ~date.matched
        THEN [archive |-> [a EXCEPT !.language = language.value],
              threw |-> TRUE]
        ELSE [archive |->
                  [a EXCEPT !.language = language.value,
                            !.date = date.value,
                            !.normalizedTitles =
                                IF normalizedTitlesInt.matched
                                THEN normalizedTitlesInt.value # "0"
                                ELSE TRUE],
              threw |-> FALSE]

\* ------------------------------------------------------------------------
\* Initialization of the archive
\* ------------------------------------------------------------------------

File(name) == [name |-> name]

\* array[index] = file on a JavaScript array: the array grows to hold the
\* slot, and the slots never assigned are empty
SetSlot(array, index, file) ==
    [i \in 1 .. (IF Len(array) > index THEN Len(array) ELSE index + 1) |->
        IF i = index + 1 THEN file
        ELSE IF i <= Len(array) THEN array[i]
        ELSE NoFile]

\* the characters that \d matches, and their values
DigitValue ==
    [ch \in {"0", "1", "2", "3", "4", "5", "6", "7", "8", "9"} |->
        CHOOSE d \in 0 .. 9 : ToString(d) = ch]

IsDigit(ch) == ch \in DOMAIN DigitValue

\* 1 * "NN"
IntOfDigits(str) ==
    10 * DigitValue[SubSeq(str, 1, 1)] + DigitValue[SubSeq(str, 2, 2)]

\* /^prefix(\d\d).suffix$/.exec(name): the number captured, -1 when the
\* name does not match; the dot matches any character
FileNrOf(name, prefix, suffix) ==
    LET n == Len(prefix)
    IN  IF /\ Len(name) = n + 3 + Len(suffix)
           /\ SubSeq(name, 1, n) = prefix
           /\ IsDigit(SubSeq(name, n + 1, n + 1))
           /\ IsDigit(SubSeq(name, n + 2, n + 2))
           /\ SubSeq(name, n + 4, Len(name)) = suffix
        THEN IntOfDigits(SubSeq(name, n + 1, n + 2))
        ELSE -1

DataFileNr(name) == FileNrOf(name, "wikipedia_", "dat")

CoordinateFileNr(name) == FileNrOf(name, "coordinates_", "idx")

\* the slot of this._coordinateFiles that holds coordinates_NN.idx
CoordinateSlotSameAsNumber(intFileNr) == intFileNr
CoordinateSlot(intFileNr) == intFileNr - 1

\* this._dataFiles and this._coordinateFiles at the start of
\* initializeFromArchiveFiles
KeptArray(array) == array
NewArray(array) == <<>>

\* the body of the loop of initializeFromArchiveFiles for one file; st holds
\* the fields of the archive, its two arrays and the metadata files whose
\* read is started
StoreArchiveFile(st, file) ==
    IF file = NoFile THEN st
    ELSE IF file.name = "metadata.txt"
    THEN [st EXCEPT !.readers = Append(@, file)]
    ELSE IF file.name = "titles.idx"
    THEN [st EXCEPT !.archive.titleFile = file]
    ELSE IF file.name = "titles_search.idx"
    THEN [st EXCEPT !.archive.titleSearchFile = file]
    ELSE IF file.name = "math.idx"
    THEN [st EXCEPT !.archive.mathIndexFile = file]
    ELSE IF file.name = "math.dat"
    THEN [st EXCEPT !.archive.mathDataFile = file]
    ELSE IF CoordinateFileNr(file.name) >= 0
    THEN [st EXCEPT !.coordinateFiles =
             SetSlot(@, CoordinateSlot(CoordinateFileNr(file.name)), file)]
    ELSE IF DataFileNr(file.name) >= 0
    THEN [st EXCEPT !.dataFiles = SetSlot(@, DataFileNr(file.name), file)]
    ELSE st

RECURSIVE StoreArchiveFiles(_, _)
StoreArchiveFiles(st, archiveFiles) ==
    IF archiveFiles = <<>> THEN st
    ELSE StoreArchiveFiles(StoreArchiveFile(st, Head(archiveFiles)),
                           Tail(archiveFiles))

\* the archive a after initializeFromArchiveFiles(archiveFiles), from the
\* arrays data and coordinates
FromArchiveFiles(a, data, coordinates, archiveFiles) ==
    StoreArchiveFiles([archive |-> a, dataFiles |-> NewArray(data),
                       coordinateFiles |-> NewArray(coordinates),
                       readers |-> <<>>],
                      archiveFiles)

\* the reads of readMetadataFile started for the given files
StartedReaders(files, callback) ==
    [k \in 1 .. Len(files) |-> [file |-> files[k], callback |-> callback]]

InitializeFromArchiveFiles(archiveFiles) ==
    /\ flatInits < MaxFlatInits
    /\ flatInits' = flatInits + 1
    /\ LET st == FromArchiveFiles(archive, dataFiles, coordinateFiles,
                                  archiveFiles)
       IN  /\ archive' = st.archive
           /\ dataFiles' = st.dataFiles
           /\ coordinateFiles' = st.coordinateFiles
           /\ metadataReaders' =
                  metadataReaders \o StartedReaders(st.readers, TRUE)
    /\ UNCHANGED <<directory, storageFault, requests, initAlerts,
                   initCallbacks, lastParsed, deviceInit, searchRest,
                   articleRest, titleVars, mathVars,
                   redirectVars,
                   serviceWorkerVars>>

\* reader.onload of readMetadataFile, for the k-th read not completed
MetadataOnload(k) ==
    /\ k \in 1 .. Len(metadataReaders)
    /\ LET r == metadataReaders[k]
           parsed == ParseMetadata(archive, r.file)
       IN  /\ archive' = parsed.archive
           /\ initCallbacks' =
                  IF r.callback /\ ~parsed.threw
                  THEN initCallbacks + 1 ELSE initCallbacks
           /\ lastParsed' = [file |-> r.file, callback |-> r.callback,
                             called |-> r.callback /\ ~parsed.threw,
                             threw |-> parsed.threw]
    /\ metadataReaders' =
           SubSeq(metadataReaders, 1, k - 1)
           \o SubSeq(metadataReaders, k + 1, Len(metadataReaders))
    /\ UNCHANGED <<dataFiles, coordinateFiles, directory, storageFault,
                   requests, initAlerts, flatInits, deviceInit, searchRest,
                   articleRest, titleVars, mathVars,
                   redirectVars,
                   serviceWorkerVars>>

\* the answer of storage.get(path): the file of the directory that has this
\* name, the error NotFoundError when there is none, another error when the
\* storage fails to read the path
StorageGet(path) ==
    IF path = storageFault
    THEN [file |-> NoFile, error |-> "SecurityError"]
    ELSE IF \E k \in 1 .. Len(directory) :
                directory[k] # NoFile /\ directory[k].name = path
    THEN [file |-> directory[CHOOSE k \in 1 .. Len(directory) :
                       directory[k] # NoFile /\ directory[k].name = path],
          error |-> ""]
    ELSE [file |-> NoFile, error |-> "NotFoundError"]

PrefixedFileNumber(index) ==
    IF index < 10 THEN "0" \o ToString(index) ELSE ToString(index)

Request(kind, index, path) == [kind |-> kind, index |-> index, path |-> path]

\* the storage.get of readDataFilesFromStorage(storage, directory, index)
DataFileRequest(index) ==
    Request("data", index, "wikipedia_" \o PrefixedFileNumber(index) \o ".dat")

\* the storage.get of readCoordinateFilesFromStorage(storage, directory,
\* index)
CoordinateFileRequest(index) ==
    Request("coordinate", index,
            "coordinates_" \o PrefixedFileNumber(index) \o ".idx")

\* the index of the first data file and of the first coordinate file that
\* initializeFromDeviceStorage asks for
FirstDataIndex == 0
FirstCoordinateIndex == 1

InitializeFromDeviceStorage ==
    /\ ~deviceInit
    /\ deviceInit' = TRUE
    /\ requests' = requests \cup
           { Request("title", 0, "titles.idx"),
             Request("titleSearch", 0, "titles_search.idx"),
             DataFileRequest(FirstDataIndex),
             Request("mathIndex", 0, "math.idx"),
             Request("mathData", 0, "math.dat"),
             Request("metadata", 0, "metadata.txt"),
             CoordinateFileRequest(FirstCoordinateIndex) }
    /\ UNCHANGED <<archive, dataFiles, coordinateFiles, directory,
                   storageFault, metadataReaders, initAlerts, initCallbacks,
                   lastParsed, flatInits, searchRest, articleRest, titleVars, mathVars,
                   redirectVars,
                   serviceWorkerVars>>

\* the alert of an enumeration that stops on an error
EnumerationAlertAlways(kind, error) == [initAlerts EXCEPT ![kind] = @ + 1]
EnumerationAlert(kind, error) ==
    IF error # "NotFoundError"
    THEN [initAlerts EXCEPT ![kind] = @ + 1]
    ELSE initAlerts

\* the resolution of the promise of the storage.get r: its then callback or
\* its error callback runs
StorageResponse(r) ==
    /\ r \in requests
    /\ LET answer == StorageGet(r.path)
           file == answer.file
           ok == answer.error = ""
           alerted == [initAlerts EXCEPT ![r.kind] = @ + 1]
       IN  CASE r.kind = "title" ->
                  /\ archive' = IF ok THEN [archive EXCEPT !.titleFile = file]
                                ELSE archive
                  /\ initAlerts' = IF ok THEN initAlerts ELSE alerted
                  /\ requests' = requests \ {r}
                  /\ UNCHANGED <<dataFiles, coordinateFiles, metadataReaders>>
            [] r.kind = "titleSearch" ->
                  /\ archive' = IF ok
                                THEN [archive EXCEPT !.titleSearchFile = file]
                                ELSE archive
                  /\ requests' = requests \ {r}
                  /\ UNCHANGED <<dataFiles, coordinateFiles, metadataReaders,
                                 initAlerts>>
            [] r.kind = "mathIndex" ->
                  /\ archive' = IF ok
                                THEN [archive EXCEPT !.mathIndexFile = file]
                                ELSE archive
                  /\ initAlerts' = IF ok THEN initAlerts ELSE alerted
                  /\ requests' = requests \ {r}
                  /\ UNCHANGED <<dataFiles, coordinateFiles, metadataReaders>>
            [] r.kind = "mathData" ->
                  /\ archive' = IF ok
                                THEN [archive EXCEPT !.mathDataFile = file]
                                ELSE archive
                  /\ initAlerts' = IF ok THEN initAlerts ELSE alerted
                  /\ requests' = requests \ {r}
                  /\ UNCHANGED <<dataFiles, coordinateFiles, metadataReaders>>
            [] r.kind = "metadata" ->
                  /\ metadataReaders' =
                         IF ok
                         THEN metadataReaders
                              \o StartedReaders(<<file>>, FALSE)
                         ELSE metadataReaders
                  /\ initAlerts' = IF ok THEN initAlerts ELSE alerted
                  /\ requests' = requests \ {r}
                  /\ UNCHANGED <<archive, dataFiles, coordinateFiles>>
            [] r.kind = "data" ->
                  /\ dataFiles' = IF ok THEN SetSlot(dataFiles, r.index, file)
                                  ELSE dataFiles
                  /\ requests' =
                         (requests \ {r}) \cup
                         (IF ok THEN {DataFileRequest(r.index + 1)} ELSE {})
                  /\ initAlerts' = IF ok THEN initAlerts
                                   ELSE EnumerationAlert("data", answer.error)
                  /\ UNCHANGED <<archive, coordinateFiles, metadataReaders>>
            [] r.kind = "coordinate" ->
                  /\ coordinateFiles' =
                         IF ok
                         THEN SetSlot(coordinateFiles, r.index - 1, file)
                         ELSE coordinateFiles
                  /\ requests' =
                         (requests \ {r}) \cup
                         (IF ok THEN {CoordinateFileRequest(r.index + 1)}
                          ELSE {})
                  /\ initAlerts' =
                         IF ok THEN initAlerts
                         ELSE EnumerationAlert("coordinate", answer.error)
                  /\ UNCHANGED <<archive, dataFiles, metadataReaders>>
    /\ UNCHANGED <<directory, storageFault, initCallbacks, lastParsed,
                   flatInits, deviceInit, searchRest, articleRest, titleVars, mathVars,
                   redirectVars,
                   serviceWorkerVars>>

IsReadyWithoutData == archive.titleFile # NoFile
IsReady == archive.titleFile # NoFile /\ Len(dataFiles) > 0

\* a whole archive: data files from wikipedia_00.dat on
WholeArchive ==
    << MetadataWithHeader, File("titles.idx"), File("titles_search.idx"),
       File("math.idx"), File("math.dat"), File("wikipedia_00.dat"),
       File("wikipedia_01.dat"), File("coordinates_01.idx"),
       File("coordinates_02.idx") >>

\* an archive whose first data file is wikipedia_01.dat, with an empty
\* entry and a file that is no archive file
ArchiveFromOne ==
    << File("wikipedia_02.dat"), File("titles.idx"), NoFile,
       File("readme.txt"), File("wikipedia_01.dat"),
       File("coordinates_01.idx"), File("math.idx"), File("math.dat"),
       MetadataOfScenario >>

\* an archive with no data file
ArchiveWithoutData ==
    << File("titles.idx"), MetadataWithoutNormalized, File("math.idx") >>

\* an archive with no title file
ArchiveWithoutTitles ==
    << File("wikipedia_00.dat"), File("coordinates_01.idx"),
       File("coordinates_02.idx"), MetadataNormalizedFirst >>

\* the lists of files given to initializeFromArchiveFiles
ArchiveFileLists == { WholeArchive, ArchiveFromOne, ArchiveWithoutData }

Storage(files, fault) == [directory |-> files, storageFault |-> fault]

\* the archive directories, and the path each storage fails to read
\* ("": none)
ArchiveStorages ==
    { Storage(WholeArchive, ""), Storage(WholeArchive, "wikipedia_01.dat"),
      Storage(ArchiveFromOne, ""),
      Storage(ArchiveWithoutTitles, "coordinates_02.idx") }

\* a new LocalArchive, and a storage that holds one archive directory
InitStorage ==
    /\ archive = NewArchive
    /\ dataFiles = <<>>
    /\ coordinateFiles = <<>>
    /\ \E st \in ArchiveStorages :
           /\ directory = st.directory
           /\ storageFault = st.storageFault
    /\ requests = {}
    /\ metadataReaders = <<>>
    /\ initAlerts = NoAlerts
    /\ initCallbacks = 0
    /\ lastParsed = NoParse
    /\ flatInits = 0
    /\ deviceInit = FALSE
    /\ callbackCounterForTitlesInCoordsSearch = 0
    /\ searches = [s \in SearchIds |-> NoSearch]
    /\ nextSearch = 1
    /\ reads = {}
    /\ chains = <<>>
    /\ callbackRuns = {}
    /\ deliveries = [s \in SearchIds |-> <<>>]
    /\ alerts = [retry |-> 0, noTitle |-> 0]
    /\ nearbyRect = Rect(0, 0, 0, 0)
    /\ nearbyMaxTitles = 0
    /\ sessions = [a \in ArticleIds |-> NoSession]
    /\ nextSession = 1
    /\ onmessage = NoHandler
    /\ workerInbox = <<>>
    /\ workerOutbox = <<>>
    /\ callbacks = [a \in ArticleIds |-> <<>>]
    /\ consumed = {}
    /\ titleIndex = <<>>
    /\ lookup = NoLookup
    /\ mathIndexFile = <<>>
    /\ mathDataFile = <<>>
    /\ mathLookup = NoMathLookup
    /\ redirect = NoRedirect
    /\ outgoingMessagePort = NullPort
    /\ fetchListeners = <<>>
    /\ messageEvents = 0
    /\ fetches = <<>>
    /\ appInbox = <<>>
    /\ portInbox = {}

NextStorage ==
    \/ \E archiveFiles \in ArchiveFileLists :
           InitializeFromArchiveFiles(archiveFiles)
    \/ InitializeFromDeviceStorage
    \/ \E r \in requests : StorageResponse(r)
    \/ \E k \in 1 .. Len(metadataReaders) : MetadataOnload(k)

\* the initializations of an archive
SpecStorage == InitStorage /\ [][NextStorage]_vars

\* ------------------------------------------------------------------------
\* Properties of the initialization
\* ------------------------------------------------------------------------

\* the slots of an array that hold a file
StoredSlots(array) == {i \in 1 .. Len(array) : array[i] # NoFile}

\* C14: isReady() is true exactly when the title file slot is set and at
\* least one data shard has been stored, whatever initializeFromArchiveFiles
\* calls and storage responses have happened.
C14_ReadyIffTitleAndDataShard ==
    IsReady <=> (archive.titleFile # NoFile /\ StoredSlots(dataFiles) # {})

\* C14 witness: the archive is ready while a read of metadata.txt is not
\* completed and no metadata has been parsed.
C14_Witness ==
    /\ IsReady
    /\ metadataReaders # <<>>
    /\ lastParsed = NoParse
    /\ archive.language = ""

\* the enumeration of the directory has ended, the storage has failed on
\* no path, and initializeFromArchiveFiles has not been called
EnumeratedOnly ==
    /\ deviceInit
    /\ requests = {}
    /\ flatInits = 0
    /\ storageFault = ""

\* C15: for the same files, the enumeration of the directory leaves the
\* archive with the same title file, search file, math files, data slots
\* and coordinate slots, and the same isReady(), as initializeFromArchiveFiles
\* does on a new archive.
C15_SameArchiveFromBothPaths ==
    EnumeratedOnly =>
        LET st == FromArchiveFiles(NewArchive, <<>>, <<>>, directory)
        IN  /\ archive.titleFile = st.archive.titleFile
            /\ archive.titleSearchFile = st.archive.titleSearchFile
            /\ archive.mathIndexFile = st.archive.mathIndexFile
            /\ archive.mathDataFile = st.archive.mathDataFile
            /\ dataFiles = st.dataFiles
            /\ coordinateFiles = st.coordinateFiles
            /\ IsReady = (st.archive.titleFile # NoFile
                          /\ Len(st.dataFiles) > 0)

\* the storage.get calls of kind not answered yet
Pending(kind) == {r \in requests : r.kind = kind}

\* C16: the directory is enumerated one file after another: the file of
\* index + 1 is asked for only once the files up to index are stored (data
\* at slot index, coordinates at slot index - 1); the first get that fails
\* stops the enumeration, with no alert for NotFoundError and exactly one
\* alert for another error; the slots stored are contiguous.
C16_EnumerationOneAfterAnother ==
    deviceInit /\ flatInits = 0 =>
        /\ Cardinality(Pending("data")) <= 1
        /\ Cardinality(Pending("coordinate")) <= 1
        /\ \A i \in 1 .. Len(dataFiles) :
               dataFiles[i].name = DataFileRequest(i - 1).path
        /\ \A i \in 1 .. Len(coordinateFiles) :
               coordinateFiles[i].name = CoordinateFileRequest(i).path
        /\ \A r \in Pending("data") :
               /\ r = DataFileRequest(Len(dataFiles))
               /\ initAlerts["data"] = 0
        /\ \A r \in Pending("coordinate") :
               /\ r = CoordinateFileRequest(Len(coordinateFiles) + 1)
               /\ initAlerts["coordinate"] = 0
        /\ Pending("data") = {} =>
               LET error == StorageGet(DataFileRequest(Len(dataFiles)).path).error
               IN  /\ error # ""
                   /\ initAlerts["data"] =
                          IF error = "NotFoundError" THEN 0 ELSE 1
        /\ Pending("coordinate") = {} =>
               LET error == StorageGet(CoordinateFileRequest(
                                Len(coordinateFiles) + 1).path).error
               IN  /\ error # ""
                   /\ initAlerts["coordinate"] =
                          IF error = "NotFoundError" THEN 0 ELSE 1

\* C16 witness: the enumeration of the data files has stopped on an error
\* that is not NotFoundError after it stored a file, and the enumeration
\* of the coordinate files has stopped on NotFoundError after it stored
\* two files.
C16_Witness ==
    /\ deviceInit
    /\ flatInits = 0
    /\ Pending("data") = {}
    /\ Pending("coordinate") = {}
    /\ Len(dataFiles) = 1
    /\ initAlerts["data"] = 1
    /\ Len(coordinateFiles) = 2
    /\ initAlerts["coordinate"] = 0

\* the value that the lines of a metadata.txt give to key ("" if none)
ValueOfKey(lines, key) ==
    LET giving == {k \in 1 .. Len(lines) :
                      Len(lines[k]) = 2 /\ lines[k][1] = key}
    IN  IF giving = {} THEN ""
        ELSE lines[CHOOSE k \in giving : \A j \in giving : k <= j][2]

\* C17: parsing a metadata text made of the lines language = L, date = D
\* and optionally normalized_titles = V, whatever line each key is on, sets
\* language = L, date = D and normalizedTitles = false when V is "0" and
\* true otherwise, and then invokes the completion callback.
C17_MetadataParsed ==
    lastParsed # NoParse =>
        LET lines == lastParsed.file.lines
        IN  /\ archive.language = ValueOfKey(lines, "language")
            /\ archive.date = ValueOfKey(lines, "date")
            /\ archive.normalizedTitles =
                   (ValueOfKey(lines, "normalized_titles") # "0")
            /\ lastParsed.callback => lastParsed.called

\* the files of a list that have the given name
Named(archiveFiles, name) ==
    {k \in 1 .. Len(archiveFiles) :
        archiveFiles[k] # NoFile /\ archiveFiles[k].name = name}

\* every file of the list that has the name is the file of the slot
InSlot(archiveFiles, name, slot) ==
    \A k \in Named(archiveFiles, name) : slot = archiveFiles[k]

\* every slot of the array holds nothing or the file of the list that
\* has the name of the slot
SlotsFromList(array, archiveFiles, first, Path(_)) ==
    \A i \in 1 .. Len(array) :
        \/ array[i] = NoFile
        \/ \E k \in Named(archiveFiles, Path(i - 1 + first)) :
               array[i] = archiveFiles[k]

DataFilePath(index) == DataFileRequest(index).path

CoordinateFilePath(index) == CoordinateFileRequest(index).path

UpperCase == "ABCDEFGHIJKLMNOPQRSTUVWXYZ"

LowerCase == "abcdefghijklmnopqrstuvwxyz"

Chars ==
    {SubSeq(UpperCase, i, i) : i \in 1 .. Len(UpperCase)}
        \cup {SubSeq(LowerCase, i, i) : i \in 1 .. Len(LowerCase)}
        \cup DOMAIN DigitValue

IndexIn(str, ch) == CHOOSE i \in 1 .. Len(str) : SubSeq(str, i, i) = ch

IsUpperCase(ch) == \E i \in 1 .. Len(UpperCase) : SubSeq(UpperCase, i, i) = ch

\* the UTF-16 code unit of a letter or of a digit, which the comparison of
\* strings uses
CharCode ==
    [ch \in Chars |->
        IF IsDigit(ch) THEN 48 + DigitValue[ch]
        ELSE IF IsUpperCase(ch) THEN 64 + IndexIn(UpperCase, ch)
        ELSE 96 + IndexIn(LowerCase, ch)]

ToLowerCase ==
    [ch \in Chars |->
        IF IsUpperCase(ch)
        THEN LET i == IndexIn(UpperCase, ch) IN SubSeq(LowerCase, i, i)
        ELSE ch]

RECURSIVE normalizeString(_)
\* normalize_string.normalizeString: the folding of a string, here of its case
normalizeString(string) ==
    IF string = "" THEN ""
    ELSE ToLowerCase[SubSeq(string, 1, 1)]
             \o normalizeString(SubSeq(string, 2, Len(string)))

\* getNormalizeFunction() applied to a string
Normalize(a, string) ==
    IF a.normalizedTitles = TRUE THEN normalizeString(string) ELSE string

RECURSIVE StringLess(_, _)
\* s < t on JavaScript strings: the order of the code units
StringLess(s, t) ==
    IF t = "" THEN FALSE
    ELSE IF s = "" THEN TRUE
    ELSE LET c == CharCode[SubSeq(s, 1, 1)]
             d == CharCode[SubSeq(t, 1, 1)]
         IN  IF c # d THEN c < d
             ELSE StringLess(SubSeq(s, 2, Len(s)), SubSeq(t, 2, Len(t)))

\* name.length < prefix.length || name.substring(0, prefix.length) !== prefix
NotStartingWith(name, prefix) ==
    \/ Len(name) < Len(prefix)
    \/ SubSeq(name, 1, Len(prefix)) # prefix

RECURSIVE RecordOffsetIn(_, _)
\* offset of the k-th record of a title file holding the names of index
RecordOffsetIn(index, k) ==
    IF k = 1 THEN 0
    ELSE RecordOffsetIn(index, k - 1) + RecordLength(index[k - 1])

FileSizeOf(index) == RecordOffsetIn(index, Len(index) + 1)

TitleRecord(index, k) ==
    [name |-> index[k], titleOffset |-> RecordOffsetIn(index, k),
     geolocation |-> Point(0, 0)]

\* SequentialTitleIterator.advance(): the record starting at offset, or null
\* at the end of the index
AdvanceIn(index, offset) ==
    IF \E k \in 1 .. Len(index) : RecordOffsetIn(index, k) = offset
    THEN TitleRecord(index,
             CHOOSE k \in 1 .. Len(index) : RecordOffsetIn(index, k) = offset)
    ELSE NullTitle

\* position of the iterator after the record at offset
AfterRecordIn(index, offset) ==
    offset + RecordLength(AdvanceIn(index, offset).name)

\* titleIterators.findPrefixOffset(titleFile, prefix, normalize): the offset
\* of the first record whose normalized name is not below prefix, or the
\* size of the file when there is none; prefix is compared as it is given
FindPrefixOffset(a, index, prefix) ==
    LET notBelow == {k \in 1 .. Len(index) :
                        ~StringLess(Normalize(a, index[k]), prefix)}
    IN  IF notBelow = {} THEN FileSizeOf(index)
        ELSE RecordOffsetIn(index,
                 CHOOSE k \in notBelow : \A j \in notBelow : k <= j)

\* the prefix handed to findPrefixOffset by getTitleByName
PrefixOfName(a, titleName) == titleName

\* the prefix handed to findPrefixOffset by findTitlesWithPrefix
PrefixOfPrefix(a, prefix) == Normalize(a, prefix)

Lookup(kind, query, prefix, maxSize) ==
    [status |-> "searching", kind |-> kind, query |-> query,
     prefix |-> prefix, maxSize |-> maxSize, start |-> -1, offset |-> -1,
     titles |-> <<>>, results |-> <<>>]

GetTitleByName(titleName) ==
    /\ lookup.status = "none"
    /\ lookup' = Lookup("byName", titleName, PrefixOfName(archive, titleName),
                        0)
    /\ UNCHANGED <<titleIndex, searchVars, articleVars, initVars, mathVars,
                   redirectVars,
                   serviceWorkerVars>>

FindTitlesWithPrefix(prefix, maxSize) ==
    /\ lookup.status = "none"
    /\ lookup' = Lookup("withPrefix", prefix, PrefixOfPrefix(archive, prefix),
                        maxSize)
    /\ UNCHANGED <<titleIndex, searchVars, articleVars, initVars, mathVars,
                   redirectVars,
                   serviceWorkerVars>>

\* titles.length > maxSize instead of titles.length >= maxSize
CapReachedLate(titles, maxSize) == Len(titles) > maxSize

CapReached(titles, maxSize) == Len(titles) >= maxSize

\* addNext() of findTitlesWithPrefix, before its advance
AddNextOrCallback(l) ==
    IF CapReached(l.titles, l.maxSize)
    THEN [l EXCEPT !.status = "done", !.results = Append(@, l.titles)]
    ELSE [l EXCEPT !.status = "advancing"]

\* the promise of findPrefixOffset resolves
PrefixOffsetFound ==
    /\ lookup.status = "searching"
    /\ LET offset == FindPrefixOffset(archive, titleIndex, lookup.prefix)
           l == [lookup EXCEPT !.start = offset, !.offset = offset]
       IN  lookup' = IF l.kind = "byName"
                     THEN [l EXCEPT !.status = "advancing"]
                     ELSE AddNextOrCallback(l)
    /\ UNCHANGED <<titleIndex, searchVars, articleVars, initVars, mathVars,
                   redirectVars,
                   serviceWorkerVars>>

\* check(title) of getTitleByName on the record the iterator has read
Check ==
    /\ lookup.status = "advancing"
    /\ lookup.kind = "byName"
    /\ LET title == AdvanceIn(titleIndex, lookup.offset)
       IN  lookup' =
               IF \/ title = NullTitle
                  \/ Normalize(archive, title.name)
                         # Normalize(archive, lookup.query)
               THEN [lookup EXCEPT !.status = "done",
                                   !.results = Append(@, NullTitle)]
               ELSE IF title.name = lookup.query
               THEN [lookup EXCEPT !.status = "done",
                                   !.results = Append(@, title)]
               ELSE [lookup EXCEPT
                        !.offset = AfterRecordIn(titleIndex, lookup.offset)]
    /\ UNCHANGED <<titleIndex, searchVars, articleVars, initVars, mathVars,
                   redirectVars,
                   serviceWorkerVars>>

\* the continuation of iterator.advance() in findTitlesWithPrefix
AddNextTitle ==
    /\ lookup.status = "advancing"
    /\ lookup.kind = "withPrefix"
    /\ LET title == AdvanceIn(titleIndex, lookup.offset)
       IN  lookup' =
               IF \/ title = NullTitle
                  \/ NotStartingWith(Normalize(archive, title.name),
                                     lookup.prefix)
               THEN [lookup EXCEPT !.status = "done",
                                   !.results = Append(@, lookup.titles)]
               ELSE AddNextOrCallback(
                        [lookup EXCEPT
                            !.titles = Append(@, title),
                            !.offset = AfterRecordIn(titleIndex,
                                                     lookup.offset)])
    /\ UNCHANGED <<titleIndex, searchVars, articleVars, initVars, mathVars,
                   redirectVars,
                   serviceWorkerVars>>

\* titleIterators.MAX_TITLE_LENGTH: the length of the slice in which the end
\* of a record is looked for
MaxTitleLength == 300

\* the byte at pos of the title file is the line feed that ends a record
IsLineFeedAt(index, pos) ==
    \E k \in 1 .. Len(index) : pos = RecordOffsetIn(index, k + 1) - 1

\* length of the byteArray of util.readFileSlice(titleFile, offset, length)
FileSliceLength(index, offset, length) ==
    Min(length, FileSizeOf(index) - offset)

\* the loop of getRandomTitle: the index in the slice of the first line
\* feed, or the length of the slice
NewLineIndex(index, offset) ==
    LET length == FileSliceLength(index, offset, MaxTitleLength)
        feeds == {i \in 0 .. length - 1 : IsLineFeedAt(index, offset + i)}
    IN  IF feeds = {} THEN length
        ELSE CHOOSE i \in feeds : \A j \in feeds : i <= j

\* the values of Math.floor(Math.random() * this._titleFile.size)
RandomOffsets(index) == 0 .. FileSizeOf(index) - 1

GetRandomTitle(offset) ==
    /\ lookup.status = "none"
    /\ lookup' = [Lookup("random", "", "", 0) EXCEPT
                     !.status = "reading", !.start = offset,
                     !.offset = offset]
    /\ UNCHANGED <<titleIndex, searchVars, articleVars, initVars, mathVars,
                   redirectVars,
                   serviceWorkerVars>>

\* the slice of the title file is read: the iterator is placed after the
\* first line feed
RandomSliceRead ==
    /\ lookup.status = "reading"
    /\ lookup' = [lookup EXCEPT
                     !.status = "advancing",
                     !.offset = lookup.start
                                    + NewLineIndex(titleIndex, lookup.start)
                                    + 1]
    /\ UNCHANGED <<titleIndex, searchVars, articleVars, initVars, mathVars,
                   redirectVars,
                   serviceWorkerVars>>

\* iterator.advance() of getRandomTitle resolves and the callback is called
RandomTitleRead ==
    /\ lookup.status = "advancing"
    /\ lookup.kind = "random"
    /\ lookup' = [lookup EXCEPT
                     !.status = "done",
                     !.results = Append(@, AdvanceIn(titleIndex,
                                                     lookup.offset))]
    /\ UNCHANGED <<titleIndex, searchVars, articleVars, initVars, mathVars,
                   redirectVars,
                   serviceWorkerVars>>

\* titles.length > titleCount instead of titles.length >= titleCount
TitleCountExceeded(titles, titleCount) == Len(titles) > titleCount

\* the test of addNext() of getTitlesStartingAtOffset
TitleCountReached(titles, titleCount) == Len(titles) >= titleCount

\* addNext() of getTitlesStartingAtOffset, before its advance: the list
\* goes to callbackFunction once titleCount titles are read
AddNextOrTitles(l) ==
    IF TitleCountReached(l.titles, l.maxSize)
    THEN [l EXCEPT !.status = "done", !.results = Append(@, l.titles)]
    ELSE [l EXCEPT !.status = "advancing"]

\* the offsets at which a record starts, and the end of the title file
RecordBoundaries(index) ==
    { RecordOffsetIn(index, k) : k \in 1 .. Len(index) + 1 }

\* getTitlesStartingAtOffset(titleOffset, titleCount, callbackFunction): the
\* work starts in the continuation of q.when()
TitlesStartingAtOffset(titleOffset, titleCount) ==
    /\ lookup.status = "none"
    /\ lookup' = [Lookup("fromOffset", "", "", titleCount) EXCEPT
                     !.status = "starting", !.start = titleOffset,
                     !.offset = titleOffset]
    /\ UNCHANGED <<titleIndex, searchVars, articleVars, initVars, mathVars,
                   redirectVars,
                   serviceWorkerVars>>

\* the continuation of q.when(): the iterator is built and addNext() called
SequentialIteratorStarted ==
    /\ lookup.status = "starting"
    /\ lookup' = AddNextOrTitles(lookup)
    /\ UNCHANGED <<titleIndex, searchVars, articleVars, initVars, mathVars,
                   redirectVars,
                   serviceWorkerVars>>

\* the continuation of iterator.advance() in getTitlesStartingAtOffset
AddNextFromOffset ==
    /\ lookup.status = "advancing"
    /\ lookup.kind = "fromOffset"
    /\ LET title == AdvanceIn(titleIndex, lookup.offset)
       IN  lookup' =
               IF title = NullTitle
               THEN [lookup EXCEPT !.status = "done",
                                   !.results = Append(@, lookup.titles)]
               ELSE AddNextOrTitles(
                        [lookup EXCEPT
                            !.titles = Append(@, title),
                            !.offset = AfterRecordIn(titleIndex,
                                                     lookup.offset)])
    /\ UNCHANGED <<titleIndex, searchVars, articleVars, initVars, mathVars,
                   redirectVars,
                   serviceWorkerVars>>

MaxSize == 2

TitleNamesQueried ==
    {"", "apple", "Apple", "APPLE", "apricot", "banana", "Banana",
     "blueberry", "cherry", "Cherry"}

PrefixesQueried == {"", "a", "A", "ap", "Ap", "b", "Ban", "c", "d", "apple"}

\* title files sorted by the normalized name, with the normalized_titles of
\* their archive
TitleArchives ==
    { [normalizedTitles |-> TRUE,
       index |-> <<"Apple", "apple", "Apricot", "Banana", "banana",
                   "Cherry">>],
      [normalizedTitles |-> TRUE,
       index |-> <<"apple", "banana", "cherry">>],
      [normalizedTitles |-> FALSE,
       index |-> <<"Apple", "Banana", "apple", "apricot", "banana">>] }

InitTitles ==
    /\ \E t \in TitleArchives :
           /\ archive = [NewArchive EXCEPT
                            !.titleFile = File("titles.idx"),
                            !.normalizedTitles = t.normalizedTitles]
           /\ titleIndex = t.index
    /\ lookup = NoLookup
    /\ mathIndexFile = <<>>
    /\ mathDataFile = <<>>
    /\ mathLookup = NoMathLookup
    /\ redirect = NoRedirect
    /\ outgoingMessagePort = NullPort
    /\ fetchListeners = <<>>
    /\ messageEvents = 0
    /\ fetches = <<>>
    /\ appInbox = <<>>
    /\ portInbox = {}
    /\ dataFiles = <<>>
    /\ coordinateFiles = <<>>
    /\ directory = <<>>
    /\ storageFault = ""
    /\ requests = {}
    /\ metadataReaders = <<>>
    /\ initAlerts = NoAlerts
    /\ initCallbacks = 0
    /\ lastParsed = NoParse
    /\ flatInits = 0
    /\ deviceInit = FALSE
    /\ callbackCounterForTitlesInCoordsSearch = 0
    /\ searches = [s \in SearchIds |-> NoSearch]
    /\ nextSearch = 1
    /\ reads = {}
    /\ chains = <<>>
    /\ callbackRuns = {}
    /\ deliveries = [s \in SearchIds |-> <<>>]
    /\ alerts = [retry |-> 0, noTitle |-> 0]
    /\ nearbyRect = Rect(0, 0, 0, 0)
    /\ nearbyMaxTitles = 0
    /\ sessions = [a \in ArticleIds |-> NoSession]
    /\ nextSession = 1
    /\ onmessage = NoHandler
    /\ workerInbox = <<>>
    /\ workerOutbox = <<>>
    /\ callbacks = [a \in ArticleIds |-> <<>>]
    /\ consumed = {}

NextTitles ==
    \/ \E titleName \in TitleNamesQueried : GetTitleByName(titleName)
    \/ \E prefix \in PrefixesQueried, maxSize \in 0 .. MaxSize :
           FindTitlesWithPrefix(prefix, maxSize)
    \/ PrefixOffsetFound
    \/ Check
    \/ AddNextTitle
    \/ \E offset \in RandomOffsets(titleIndex) : GetRandomTitle(offset)
    \/ RandomSliceRead
    \/ RandomTitleRead
    \/ \E titleOffset \in RecordBoundaries(titleIndex),
          titleCount \in (-1) .. MaxSize :
           TitlesStartingAtOffset(titleOffset, titleCount)
    \/ SequentialIteratorStarted
    \/ AddNextFromOffset

SpecTitles == InitTitles /\ [][NextTitles]_vars

\* ------------------------------------------------------------------------
\* Properties of the title lookup
\* ------------------------------------------------------------------------

\* the title file is sorted by the normalized name
SortedByNormalizedName ==
    \A j, k \in 1 .. Len(titleIndex) :
        j < k => ~StringLess(Normalize(archive, titleIndex[k]),
                             Normalize(archive, titleIndex[j]))

\* the record at which a query of the normalized string p starts
FirstNotBelow(p) ==
    LET notBelow == {k \in 1 .. Len(titleIndex) :
                        ~StringLess(Normalize(archive, titleIndex[k]), p)}
    IN  IF notBelow = {} THEN Len(titleIndex) + 1
        ELSE CHOOSE k \in notBelow : \A j \in notBelow : k <= j

\* the records of the run that begins at first and whose names all
\* satisfy Matches
RunFrom(first, Matches(_)) ==
    {k \in first .. Len(titleIndex) :
        \A j \in first .. k : Matches(Normalize(archive, titleIndex[j]))}

\* the run of the records whose normalized name is that of name
RunOfName(name) ==
    LET p == Normalize(archive, name)
        Same(n) == n = p
    IN  RunFrom(FirstNotBelow(p), Same)

\* the title getTitleByName is to resolve to
TitleOfName(name) ==
    LET found == {k \in RunOfName(name) : titleIndex[k] = name}
    IN  IF found = {} THEN NullTitle
        ELSE TitleRecord(titleIndex,
                 CHOOSE k \in found : \A j \in found : k <= j)

\* C19: on a title index sorted by normalized name, getTitleByName(name)
\* starts at findPrefixOffset(normalize(name)) and resolves to the first
\* record of the run of the records with the normalized name of name whose
\* raw name is name, or to null; it resolves to a title if and only if the
\* index holds a record whose raw name is name
C19_ExactLookup ==
    (lookup.kind = "byName" /\ SortedByNormalizedName) =>
        /\ lookup.status \in {"advancing", "done"} =>
               lookup.start = RecordOffsetIn(titleIndex,
                                  FirstNotBelow(Normalize(archive,
                                                          lookup.query)))
        /\ lookup.status = "done" =>
               /\ lookup.results = <<TitleOfName(lookup.query)>>
               /\ lookup.results[1] # NullTitle
                      <=> \E k \in 1 .. Len(titleIndex) :
                              titleIndex[k] = lookup.query

\* the number m of records of the run of the names starting with the
\* normalized prefix
RunOfPrefix(prefix) ==
    LET p == Normalize(archive, prefix)
        Starts(n) == ~NotStartingWith(n, p)
    IN  RunFrom(FirstNotBelow(p), Starts)

TitlesOfPrefix(prefix, n) ==
    LET first == FirstNotBelow(Normalize(archive, prefix))
        m == Cardinality(RunOfPrefix(prefix))
    IN  [i \in 1 .. Min(n, m) |-> TitleRecord(titleIndex, first + i - 1)]

\* C20: findTitlesWithPrefix(prefix, n) calls its callback once, with the
\* first min(n, m) records, in the order of the file, of the run of the m
\* records that begins at findPrefixOffset(normalize(prefix)) and whose
\* normalized names start with the normalized prefix
C20_PrefixLookup ==
    lookup.kind = "withPrefix" =>
        /\ Len(lookup.results) <= 1
        /\ lookup.status = "done" <=> Len(lookup.results) = 1
        /\ lookup.status \in {"advancing", "done"} =>
               lookup.start = RecordOffsetIn(titleIndex,
                                  FirstNotBelow(Normalize(archive,
                                                          lookup.query)))
        /\ lookup.status = "done" =>
               LET titles == lookup.results[1]
               IN  /\ titles = TitlesOfPrefix(lookup.query, lookup.maxSize)
                   /\ Len(titles) <= lookup.maxSize
                   /\ \A i \in 1 .. Len(titles) :
                          ~NotStartingWith(
                               Normalize(archive, titles[i].name),
                               Normalize(archive, lookup.query))
                   /\ \A i, j \in 1 .. Len(titles) :
                          i < j => titles[i].titleOffset
                                       < titles[j].titleOffset

\* a prefix query has stopped at maxSize inside a longer run, on an archive
\* of normalized titles and with a prefix that normalization changes
C20_Witness ==
    /\ lookup.kind = "withPrefix"
    /\ lookup.status = "done"
    /\ archive.normalizedTitles = TRUE
    /\ lookup.query # Normalize(archive, lookup.query)
    /\ lookup.maxSize > 0
    /\ Len(lookup.results[1]) = lookup.maxSize
    /\ Cardinality(RunOfPrefix(lookup.query)) > lookup.maxSize

\* ------------------------------------------------------------------------
\* Properties of getRandomTitle
\* ------------------------------------------------------------------------

\* the position after the first line feed at or after offset
AfterFirstLineFeed(offset) ==
    LET feeds == {pos \in offset .. FileSizeOf(titleIndex) - 1 :
                     IsLineFeedAt(titleIndex, pos)}
    IN  1 + CHOOSE pos \in feeds : \A other \in feeds : pos <= other

\* C21: on a title index that is not empty, for every offset drawn in
\* [0, fileSize), getRandomTitle delivers a title, never null, read at the
\* start of a record, which is the byte after the first line feed at or
\* after the offset drawn
C21_RandomTitleIsARecord ==
    (lookup.kind = "random" /\ lookup.status = "done"
         /\ Len(titleIndex) > 0) =>
        /\ lookup.results[1] # NullTitle
        /\ lookup.results[1].titleOffset = AfterFirstLineFeed(lookup.start)
        /\ \E k \in 1 .. Len(titleIndex) :
               lookup.results[1].titleOffset = RecordOffsetIn(titleIndex, k)

\* ------------------------------------------------------------------------
\* Math images: loadMathImage and findMathDataPosition
\* ------------------------------------------------------------------------

\* size of an entry of the math index: 16 + 4 + 4
EntrySize == 24

HashSize == 16

ByteRange == 256

RECURSIVE BytesOf(_, _)
\* the n bytes of an integer, little endian
BytesOf(value, n) ==
    IF n = 0 THEN <<>>
    ELSE <<value % ByteRange>> \o BytesOf(value \div ByteRange, n - 1)

RECURSIVE ReadInteger(_, _, _)
\* util.readIntegerFrom4Bytes and its like: the integer of the n bytes of
\* byteArray from index firstIndex (0-based), little endian
ReadInteger(byteArray, firstIndex, n) ==
    IF n = 0 THEN 0
    ELSE byteArray[firstIndex + 1]
             + ByteRange * ReadInteger(byteArray, firstIndex + 1, n - 1)

ReadIntegerFrom4Bytes(byteArray, firstIndex) ==
    ReadInteger(byteArray, firstIndex, 4)

HexDigits == "0123456789abcdef"

HexDigit(n) == SubSeq(HexDigits, n + 1, n + 1)

RECURSIVE Uint8ArrayToHex(_)
\* util.uint8ArrayToHex: two hexadecimal digits per byte
Uint8ArrayToHex(byteArray) ==
    IF byteArray = <<>> THEN ""
    ELSE HexDigit(Head(byteArray) \div 16) \o HexDigit(Head(byteArray) % 16)
             \o Uint8ArrayToHex(Tail(byteArray))

\* a hash of 16 bytes that begins with the bytes a and b
Hash(a, b) == <<a, b>> \o [i \in 1 .. (HashSize - 2) |-> 0]

MathEntry(hash, pos, length) == [hash |-> hash, pos |-> pos, length |-> length]

\* the 24 bytes of an entry of the math index
EntryBytes(e) == e.hash \o BytesOf(e.pos, 4) \o BytesOf(e.length, 4)

\* file.slice(start, end) of the math index, for a slice that is one entry
IndexSlice(file, start, end) ==
    IF start % EntrySize = 0 /\ end = start + EntrySize
           /\ end <= EntrySize * Len(file)
    THEN EntryBytes(file[(start \div EntrySize) + 1])
    ELSE <<>>

\* file.slice(start, end) of a file given by its bytes
ByteSlice(bytes, start, end) ==
    SubSeq(bytes, start + 1, Min(end, Len(bytes)))

\* lo >= hi ends the search without any call
FindMathDataPosition(l, lo, hi) ==
    IF lo >= hi
    THEN [l EXCEPT !.status = "notFound", !.lo = lo, !.hi = hi]
    ELSE [l EXCEPT !.status = "probing", !.lo = lo, !.hi = hi,
                   !.probes = Append(@, (lo + hi) \div 2)]

LoadMathImage(hexString) ==
    /\ mathLookup.status = "none"
    /\ mathLookup' = FindMathDataPosition(
                         [NoMathLookup EXCEPT !.hexString = hexString],
                         0, (EntrySize * Len(mathIndexFile)) \div EntrySize)
    /\ UNCHANGED <<mathIndexFile, mathDataFile, searchVars, articleVars,
                   initVars, titleVars, redirectVars,
                   serviceWorkerVars>>

\* hi = mid - 1 instead of hi = mid
HiBelowMid(mid) == mid - 1

HiAfterProbe(mid) == mid

\* reader.onload of findMathDataPosition
MathIndexOnload ==
    /\ mathLookup.status = "probing"
    /\ LET l == mathLookup
           mid == l.probes[Len(l.probes)]
           byteArray == IndexSlice(mathIndexFile, mid * EntrySize,
                                   (mid + 1) * EntrySize)
           hash == Uint8ArrayToHex(SubSeq(byteArray, 1, HashSize))
       IN  mathLookup' =
               IF hash = l.hexString
               THEN [l EXCEPT
                        !.status = "reading",
                        !.pos = ReadIntegerFrom4Bytes(byteArray, HashSize),
                        !.length = ReadIntegerFrom4Bytes(byteArray,
                                                         HashSize + 4)]
               ELSE IF StringLess(l.hexString, hash)
               THEN FindMathDataPosition(l, l.lo, HiAfterProbe(mid))
               ELSE FindMathDataPosition(l, mid + 1, l.hi)
    /\ UNCHANGED <<mathIndexFile, mathDataFile, searchVars, articleVars,
                   initVars, titleVars, redirectVars,
                   serviceWorkerVars>>

\* reader.onload of loadMathImage: the callback receives the bytes read
MathDataOnload ==
    /\ mathLookup.status = "reading"
    /\ mathLookup' = [mathLookup EXCEPT
           !.status = "done",
           !.results = Append(@, ByteSlice(mathDataFile, mathLookup.pos,
                                     mathLookup.pos + mathLookup.length))]
    /\ UNCHANGED <<mathIndexFile, mathDataFile, searchVars, articleVars,
                   initVars, titleVars, redirectVars,
                   serviceWorkerVars>>

\* math indexes sorted by hash, with their math data file
MathArchives ==
    { [index |-> <<>>, data |-> <<>>],
      [index |-> <<MathEntry(Hash(10, 0), 0, 3)>>,
       data |-> <<11, 12, 13>>],
      [index |-> <<MathEntry(Hash(2, 0), 4, 2), MathEntry(Hash(9, 255), 0, 4),
                   MathEntry(Hash(10, 1), 9, 0), MathEntry(Hash(159, 0), 6, 3),
                   MathEntry(Hash(160, 0), 9, 1)>>,
       data |-> <<21, 22, 23, 24, 25, 26, 27, 28, 29, 30>>],
      [index |-> <<MathEntry(Hash(0, 0), 0, 1), MathEntry(Hash(0, 1), 1, 1),
                   MathEntry(Hash(1, 0), 2, 1), MathEntry(Hash(15, 15), 3, 1),
                   MathEntry(Hash(16, 0), 4, 1), MathEntry(Hash(171, 205), 5, 1),
                   MathEntry(Hash(254, 0), 6, 1), MathEntry(Hash(255, 255), 7, 1)>>,
       data |-> <<31, 32, 33, 34, 35, 36, 37, 38>>] }

\* the hashes asked for, in and out of the indexes
HashesQueried ==
    {Hash(0, 0), Hash(0, 1), Hash(0, 2), Hash(1, 0), Hash(2, 0), Hash(3, 0),
     Hash(9, 255), Hash(10, 0), Hash(10, 1), Hash(15, 15), Hash(16, 0),
     Hash(100, 0), Hash(159, 0), Hash(160, 0), Hash(171, 205), Hash(200, 0),
     Hash(254, 0), Hash(255, 255)}

InitMath ==
    /\ \E m \in MathArchives :
           /\ mathIndexFile = m.index
           /\ mathDataFile = m.data
    /\ mathLookup = NoMathLookup
    /\ archive = [NewArchive EXCEPT !.mathIndexFile = File("math.idx"),
                                    !.mathDataFile = File("math.dat")]
    /\ redirect = NoRedirect
    /\ outgoingMessagePort = NullPort
    /\ fetchListeners = <<>>
    /\ messageEvents = 0
    /\ fetches = <<>>
    /\ appInbox = <<>>
    /\ portInbox = {}
    /\ titleIndex = <<>>
    /\ lookup = NoLookup
    /\ dataFiles = <<>>
    /\ coordinateFiles = <<>>
    /\ directory = <<>>
    /\ storageFault = ""
    /\ requests = {}
    /\ metadataReaders = <<>>
    /\ initAlerts = NoAlerts
    /\ initCallbacks = 0
    /\ lastParsed = NoParse
    /\ flatInits = 0
    /\ deviceInit = FALSE
    /\ callbackCounterForTitlesInCoordsSearch = 0
    /\ searches = [s \in SearchIds |-> NoSearch]
    /\ nextSearch = 1
    /\ reads = {}
    /\ chains = <<>>
    /\ callbackRuns = {}
    /\ deliveries = [s \in SearchIds |-> <<>>]
    /\ alerts = [retry |-> 0, noTitle |-> 0]
    /\ nearbyRect = Rect(0, 0, 0, 0)
    /\ nearbyMaxTitles = 0
    /\ sessions = [a \in ArticleIds |-> NoSession]
    /\ nextSession = 1
    /\ onmessage = NoHandler
    /\ workerInbox = <<>>
    /\ workerOutbox = <<>>
    /\ callbacks = [a \in ArticleIds |-> <<>>]
    /\ consumed = {}

NextMath ==
    \/ \E hash \in HashesQueried : LoadMathImage(Uint8ArrayToHex(hash))
    \/ MathIndexOnload
    \/ MathDataOnload

SpecMath == InitMath /\ [][NextMath]_vars

\* every read of the math files completes
SpecMathFair ==
    SpecMath /\ WF_vars(MathIndexOnload) /\ WF_vars(MathDataOnload)

\* ------------------------------------------------------------------------
\* Properties of the math images
\* ------------------------------------------------------------------------

RECURSIVE BytesLess(_, _)
\* the order of two hashes, byte by byte
BytesLess(a, b) ==
    IF b = <<>> THEN FALSE
    ELSE IF a = <<>> THEN TRUE
    ELSE IF Head(a) # Head(b) THEN Head(a) < Head(b)
    ELSE BytesLess(Tail(a), Tail(b))

MathIndexSorted ==
    \A j, k \in 1 .. Len(mathIndexFile) :
        j < k => BytesLess(mathIndexFile[j].hash, mathIndexFile[k].hash)

\* the positions of the index whose hash is written hexString
EntriesOf(hexString) ==
    {k \in 1 .. Len(mathIndexFile) :
        Uint8ArrayToHex(mathIndexFile[k].hash) = hexString}

MathImageAsked == mathLookup.status # "none"

MathImagePresent == MathImageAsked /\ EntriesOf(mathLookup.hexString) # {}

\* the callback of a present hash is called at most once, when the data are
\* read, with the bytes [pos, pos + len) of the math data file
MathImageDelivered ==
    (MathIndexSorted /\ MathImagePresent) =>
        LET e == mathIndexFile[CHOOSE k \in EntriesOf(mathLookup.hexString) :
                                   TRUE]
        IN  /\ mathLookup.status # "notFound"
            /\ Len(mathLookup.results) <= 1
            /\ mathLookup.status = "done" <=> Len(mathLookup.results) = 1
            /\ mathLookup.status = "done" =>
                   /\ mathLookup.results[1]
                          = [i \in 1 .. e.length |-> mathDataFile[e.pos + i]]
                   /\ Len(mathLookup.results[1]) = e.length

\* C22: on a math index sorted by hash, loadMathImage(h) of a hash present
\* at any position of the index terminates and calls its callback exactly
\* once, with the bytes [pos, pos + len) of the math data recorded in the
\* entry of h, of exactly the recorded length
C22_MathImageOfPresentHash ==
    /\ [](MathImageDelivered)
    /\ (MathImagePresent ~> mathLookup.status = "done")

\* the image of the first entry of the index of eight entries is delivered
\* after four probes
C22_Witness ==
    /\ mathLookup.status = "done"
    /\ Len(mathIndexFile) = 8
    /\ EntriesOf(mathLookup.hexString) = {1}
    /\ Len(mathLookup.probes) = 4
    /\ mathLookup.results = <<(<<31>>)>>

\* C23: for a hash absent from the math index, loadMathImage(h) ends after
\* finitely many reads of the index and reports that the hash is not found
\* to its caller when lo >= hi
C23_AbsentHashReported ==
    (MathImageAsked /\ ~MathImagePresent /\ mathLookup.lo >= mathLookup.hi) =>
        /\ mathLookup.status = "notFound"
        /\ mathLookup.results # <<>>

\* ------------------------------------------------------------------------
\* Redirects: resolveRedirect
\* ------------------------------------------------------------------------

\* fileNr of a title that is a redirect (0xFF)
RedirectFileNr == 255

LineFeed == 10

\* the article of a record, or the record its redirect points to
Article(fileNr, blockStart, blockOffset, articleLength) ==
    [fileNr |-> fileNr, blockStart |-> blockStart,
     blockOffset |-> blockOffset, articleLength |-> articleLength,
     target |-> ""]

RedirectTo(target) ==
    [fileNr |-> RedirectFileNr, blockStart |-> 0, blockOffset |-> 0,
     articleLength |-> 0, target |-> target]

\* what the records of the title files of the model point to
Pointers ==
    [name \in {"Lima", "Lyon", "Oslo", "Paris", "Quito", "Bern", "Scenario",
               "Ciudad", "Lutece", "Paname", "Kristiania", "Moved"} |->
        CASE name = "Lima" -> Article(0, 0, 0, 2)
          [] name = "Lyon" -> Article(1, 0, 0, 0)
          [] name = "Oslo" -> Article(2, 0, 0, 1)
          [] name = "Paris" -> Article(0, 0, 1, 3)
          [] name = "Quito" -> Article(0, 100000, 2, 2)
          [] name = "Bern" -> Article(1, 70, 1, 5)
          [] name = "Scenario" -> Article(3, 1000, 42, 7)
          [] name = "Ciudad" -> RedirectTo("Lima")
          [] name = "Lutece" -> RedirectTo("Paris")
          [] name = "Paname" -> RedirectTo("Lutece")
          [] name = "Kristiania" -> RedirectTo("Oslo")
          [] name = "Moved" -> RedirectTo("Scenario")]

PositionOf(index, name) ==
    CHOOSE k \in 1 .. Len(index) : index[k] = name

\* the pointer fields stored in the record of name: a redirect stores the
\* offset of its target in the title file as blockStart
HeaderOf(index, name) ==
    LET p == Pointers[name]
    IN  IF p.target = "" THEN p
        ELSE [p EXCEPT !.blockStart =
                  RecordOffsetIn(index, PositionOf(index, p.target))]

RECURSIVE NameBytes(_)
NameBytes(name) ==
    IF name = "" THEN <<>>
    ELSE <<CharCode[SubSeq(name, 1, 1)]>>
             \o NameBytes(SubSeq(name, 2, Len(name)))

\* the bytes of a record: two reserved bytes, fileNr, blockStart,
\* blockOffset, articleLength, the name and a line feed
RecordBytes(index, name) ==
    LET h == HeaderOf(index, name)
    IN  <<0, 0, h.fileNr>> \o BytesOf(h.blockStart, 4)
            \o BytesOf(h.blockOffset, 4) \o BytesOf(h.articleLength, 4)
            \o NameBytes(name) \o <<LineFeed>>

RECURSIVE TitleFileBytes(_, _)
\* the bytes of the title file from its k-th record on
TitleFileBytes(index, k) ==
    IF k > Len(index) THEN <<>>
    ELSE RecordBytes(index, index[k]) \o TitleFileBytes(index, k + 1)

\* the Title the iterator makes of the k-th record
TitleOfRecord(index, k) ==
    LET h == HeaderOf(index, index[k])
    IN  [name |-> index[k], fileNr |-> h.fileNr, blockStart |-> h.blockStart,
         blockOffset |-> h.blockOffset, articleLength |-> h.articleLength,
         titleOffset |-> RecordOffsetIn(index, k),
         geolocation |-> Point(0, 0)]

\* the value of an arithmetic expression on a byte that the array lacks
NaN == -1

\* byteArray[i], undefined past the end of the array
ByteOrNaN(byteArray, i) ==
    IF i < Len(byteArray) THEN byteArray[i + 1] ELSE NaN

\* util.readIntegerFrom4Bytes on an array that may be too short
IntegerOrNaN(byteArray, firstIndex) ==
    IF firstIndex + 4 <= Len(byteArray)
    THEN ReadIntegerFrom4Bytes(byteArray, firstIndex)
    ELSE NaN

\* index in byteArray of the byte read as fileNr
FileNrIndexBefore == 2 - 1

FileNrIndex == 2

\* the length of the slice read by resolveRedirect
RedirectSliceLength == 16

\* redirectedTitle = title with its four pointers read from byteArray
RedirectedTitle(title, byteArray) ==
    [title EXCEPT
        !.fileNr = ByteOrNaN(byteArray, FileNrIndex),
        !.blockStart = IntegerOrNaN(byteArray, 3),
        !.blockOffset = IntegerOrNaN(byteArray, 7),
        !.articleLength = IntegerOrNaN(byteArray, 11)]

\* resolveRedirect(title, callbackFunction): the read of the slice is started
ResolveRedirect(title) ==
    /\ redirect.status = "none"
    /\ redirect' = [NoRedirect EXCEPT !.status = "reading", !.given = title,
                                      !.title = title, !.before = title,
                                      !.calls = 1]
    /\ UNCHANGED <<searchVars, articleVars, initVars, titleVars, mathVars,
                   serviceWorkerVars>>

\* resolveRedirect called on the title that resolveRedirect has delivered
ResolveRedirectAgain ==
    /\ redirect.status = "delivered"
    /\ redirect.calls < MaxResolves
    /\ redirect' = [redirect EXCEPT !.status = "reading",
                                    !.before = redirect.title,
                                    !.calls = @ + 1]
    /\ UNCHANGED <<searchVars, articleVars, initVars, titleVars, mathVars,
                   serviceWorkerVars>>

\* reader.onload of resolveRedirect
RedirectOnload ==
    /\ redirect.status = "reading"
    /\ LET blockStart == redirect.title.blockStart
           byteArray == ByteSlice(TitleFileBytes(titleIndex, 1), blockStart,
                                  blockStart + RedirectSliceLength)
       IN  IF Len(byteArray) = 0
           THEN redirect' = [redirect EXCEPT !.status = "failed",
                                             !.alerts = @ + 1]
           ELSE LET redirectedTitle ==
                        RedirectedTitle(redirect.title, byteArray)
                IN  redirect' = [redirect EXCEPT
                        !.status = "delivered",
                        !.title = redirectedTitle,
                        !.results = Append(@, redirectedTitle)]
    /\ UNCHANGED <<searchVars, articleVars, initVars, titleVars, mathVars,
                   serviceWorkerVars>>

\* the title files of the model
RedirectTitleFiles ==
    { <<"Lima", "Lyon", "Paris", "Quito", "Ciudad", "Lutece", "Paname">>,
      <<"Kristiania", "Oslo", "Bern", "Scenario", "Moved", "Lyon">>,
      <<"Paris", "Lima", "Lutece", "Ciudad", "Bern">>,
      <<"Scenario", "Moved", "Paname", "Lutece", "Paris", "Quito">>,
      <<"Oslo", "Kristiania", "Lima", "Ciudad", "Lyon", "Paris", "Lutece",
        "Paname">> }

InitRedirect ==
    /\ titleIndex \in RedirectTitleFiles
    /\ archive = [NewArchive EXCEPT !.titleFile = File("titles.idx")]
    /\ redirect = NoRedirect
    /\ outgoingMessagePort = NullPort
    /\ fetchListeners = <<>>
    /\ messageEvents = 0
    /\ fetches = <<>>
    /\ appInbox = <<>>
    /\ portInbox = {}
    /\ lookup = NoLookup
    /\ mathIndexFile = <<>>
    /\ mathDataFile = <<>>
    /\ mathLookup = NoMathLookup
    /\ dataFiles = <<>>
    /\ coordinateFiles = <<>>
    /\ directory = <<>>
    /\ storageFault = ""
    /\ requests = {}
    /\ metadataReaders = <<>>
    /\ initAlerts = NoAlerts
    /\ initCallbacks = 0
    /\ lastParsed = NoParse
    /\ flatInits = 0
    /\ deviceInit = FALSE
    /\ callbackCounterForTitlesInCoordsSearch = 0
    /\ searches = [s \in SearchIds |-> NoSearch]
    /\ nextSearch = 1
    /\ reads = {}
    /\ chains = <<>>
    /\ callbackRuns = {}
    /\ deliveries = [s \in SearchIds |-> <<>>]
    /\ alerts = [retry |-> 0, noTitle |-> 0]
    /\ nearbyRect = Rect(0, 0, 0, 0)
    /\ nearbyMaxTitles = 0
    /\ sessions = [a \in ArticleIds |-> NoSession]
    /\ nextSession = 1
    /\ onmessage = NoHandler
    /\ workerInbox = <<>>
    /\ workerOutbox = <<>>
    /\ callbacks = [a \in ArticleIds |-> <<>>]
    /\ consumed = {}

NextRedirect ==
    \/ \E k \in 1 .. Len(titleIndex) :
           ResolveRedirect(TitleOfRecord(titleIndex, k))
    \/ ResolveRedirectAgain
    \/ RedirectOnload

SpecRedirect == InitRedirect /\ [][NextRedirect]_vars

\* ------------------------------------------------------------------------
\* Properties of resolveRedirect
\* ------------------------------------------------------------------------

\* the byte at position pos (0-based) of the title file
TitleFileByte(pos) == TitleFileBytes(titleIndex, 1)[pos + 1]

\* u32le of the four bytes of the title file from position pos
TitleFileU32(pos) ==
    TitleFileByte(pos) + 256 * TitleFileByte(pos + 1)
        + 65536 * TitleFileByte(pos + 2) + 16777216 * TitleFileByte(pos + 3)

\* the 16 bytes read by the last call lie in the title file
RedirectBytesInFile ==
    redirect.before.blockStart + RedirectSliceLength
        <= FileSizeOf(titleIndex)

\* C24: resolveRedirect(title) reads the 16 bytes at title.blockStart of
\* the title file and delivers the same title with fileNr = byte 2,
\* blockStart, blockOffset and articleLength = the little-endian integers
\* of bytes 3..6, 7..10 and 11..14; name, titleOffset and geolocation are
\* left as they were
C24_RedirectRewritesFourPointers ==
    (redirect.status = "delivered" /\ RedirectBytesInFile) =>
        LET at == redirect.before.blockStart
            delivered == redirect.results[Len(redirect.results)]
        IN  /\ Len(redirect.results) = redirect.calls
            /\ delivered = redirect.title
            /\ delivered.fileNr = TitleFileByte(at + 2)
            /\ delivered.blockStart = TitleFileU32(at + 3)
            /\ delivered.blockOffset = TitleFileU32(at + 7)
            /\ delivered.articleLength = TitleFileU32(at + 11)
            /\ delivered.name = redirect.before.name
            /\ delivered.titleOffset = redirect.before.titleOffset
            /\ delivered.geolocation = redirect.before.geolocation

\* the redirect to the record (3, 1000, 42, 7) has been resolved
C24_Witness ==
    /\ redirect.status = "delivered"
    /\ redirect.calls = 1
    /\ redirect.given.fileNr = RedirectFileNr
    /\ redirect.given.name = "Moved"
    /\ redirect.title.fileNr = 3
    /\ redirect.title.blockStart = 1000
    /\ redirect.title.blockOffset = 42
    /\ redirect.title.articleLength = 7

\* the four pointers of a title
PointersOf(title) ==
    <<title.fileNr, title.blockStart, title.blockOffset, title.articleLength>>

\* C25: for a title t that is not a redirect, the title delivered by
\* resolveRedirect(resolveRedirect(t)) has the four pointers t had before
C25_ResolveTwiceIsNoOp ==
    (redirect.status = "delivered" /\ redirect.calls = 2
         /\ redirect.given.fileNr # RedirectFileNr) =>
        PointersOf(redirect.title) = PointersOf(redirect.given)

\* ------------------------------------------------------------------------
\* Properties of the read lengths of an article session
\* ------------------------------------------------------------------------

\* the k-th read of every session has the length k * CHUNK_SIZE, and the
\* request given to the codec covers [blockStart, blockStart + readLength)
\* of the shard of the session
ReadLengthsByChunk ==
    /\ \A a \in ArticleIds :
           \A k \in 1 .. Len(sessions[a].readLengths) :
               sessions[a].readLengths[k] = k * CHUNK_SIZE
    /\ \A i \in 1 .. Len(workerInbox) :
           LET m == workerInbox[i]
               s == sessions[m.session]
           IN  /\ m.dataFile = s.dataFile
               /\ m.start = s.title.blockStart
               /\ m.length \in {s.readLengths[k] :
                                    k \in 1 .. Len(s.readLengths)}

\* the reply m, made to a request of the session a, asks for more bytes
NeedsMore(m, a) ==
    LET title == sessions[a].title
    IN  \/ m.reply.cmd = "recurse"
        \/ /\ m.reply.cmd = "result"
           /\ Len(Substring(m.reply.text, title.blockOffset,
                            title.blockOffset + title.articleLength))
                  < title.articleLength

\* what the handling of the oldest reply of the codec does to the session
\* the reply was made for
ReplyStartsOneRead ==
    LET m == Head(workerOutbox)
        a == m.request
        lengths == sessions[a].readLengths
        next == lengths[Len(lengths)] + CHUNK_SIZE
    IN  /\ m.reply.cmd = "debug" =>
               /\ callbacks' = callbacks
               /\ \A b \in ArticleIds :
                      sessions'[b].readLengths = sessions[b].readLengths
        /\ (NeedsMore(m, a) /\ next <= MaxReadChunks * CHUNK_SIZE) =>
               /\ callbacks' = callbacks
               /\ sessions'[a].readLengths = Append(lengths, next)
               /\ sessions'[a].reader.busy
               /\ \A b \in ArticleIds \ {a} :
                      sessions'[b].readLengths = sessions[b].readLengths

\* C26: in an article session readLength starts at CHUNK_SIZE and every
\* read covers [blockStart, blockStart + readLength) of the shard; each
\* recurse reply and each result reply whose slice is shorter than
\* articleLength starts exactly one new read, CHUNK_SIZE longer, and calls
\* no callback, so that the k-th read has the length k * CHUNK_SIZE; a debug
\* reply starts no read and calls no callback
C26_ReadLengthGrowsByChunk ==
    /\ [](ReadLengthsByChunk)
    /\ [][WorkerOnMessage => ReplyStartsOneRead]_vars

\* ------------------------------------------------------------------------
\* Properties of a single spatial search
\* ------------------------------------------------------------------------

\* getTitlesInCoords has been called once (the counter is 0 at that call)
SingleSearch == nextSearch = 2

\* every read issued for the search s has completed
AllReadsCompleted(s) ==
    /\ \A r \in reads : r.search # s
    /\ \A c \in 1 .. Len(chains) :
           chains[c].search = s => chains[c].status # "reading"

\* C27: a single call of getTitlesInCoords on an archive with at least one
\* coordinate file, made while the counter is 0, calls the callback exactly
\* once when all the reads it issues have completed, never twice, in
\* whatever order the reads complete
C27_SingleSearchCallsBackOnce ==
    (SingleSearch /\ Len(coordinateFiles) >= 1) =>
        /\ Len(deliveries[1]) <= 1
        /\ AllReadsCompleted(1) => Len(deliveries[1]) = 1

\* the title positions of a delivered list
DeliveredPositions(titles) ==
    { [titleOffset |-> titles[j].titleOffset,
       geolocation |-> titles[j].geolocation] : j \in 1 .. Len(titles) }

\* the title positions of the leaf entries of the archive that lie inside
\* the target rectangle of the search s
PositionsInTarget(s) ==
    { [titleOffset |-> e.titleOffset, geolocation |-> ReadCoordinates(e)]
      : e \in EntriesInTarget(s) }

\* the search s has room for every leaf entry inside its rectangle
AllEntriesFit(s) ==
    /\ searches[s].status = "accepted"
    /\ Cardinality(EntriesInTarget(s)) <= searches[s].maxTitles

\* C28: when the leaf entries inside R number at most maxTitles, the set of
\* titles delivered by a search is the same in every order of completion of
\* its coordinate reads: it is the set of the entries inside R, which
\* depends on the archive and on R only.
C28_DeliveredSetIsOrderIndependent ==
    \A s \in SearchIds :
        AllEntriesFit(s) =>
            \A k \in 1 .. Len(deliveries[s]) :
                DeliveredPositions(deliveries[s][k]) = PositionsInTarget(s)

\* the quadrants of thisRect split at center, in the order of the children
\* in the coordinate file: each one spans from a corner of thisRect to the
\* center
Quadrants(thisRect, center) ==
    LET west  == thisRect.x
        east  == thisRect.x + thisRect.width
        south == thisRect.y
        north == thisRect.y + thisRect.height
        span(cx, cy) == Normalized(Rect(cx, cy, center.x - cx, center.y - cy))
    IN  <<span(west, south), span(east, south),
          span(west, north), span(east, north)>>

\* the file positions of the four children of the inner node at base
ChildPositions(base, node) ==
    <<base + 22,
      base + 22 + node.lensw,
      base + 22 + node.lensw + node.lense,
      base + 22 + node.lensw + node.lense + node.lennw>>

\* the step is the completion handler of the read r
CompletionOf(r) == r \in reads /\ r \notin reads'

\* C29: the completion handler of an inner node at position base that runs
\* before the cap is reached issues a read for exactly the children whose
\* quadrant intersects R, at base+22, base+22+lensw, base+22+lensw+lense and
\* base+22+lensw+lense+lennw, and increments the counter once per issued
\* read (after its own decrement); a completion handler that runs once the
\* collected positions have reached maxTitles >= 0 issues no read.
C29_InnerNodeIssuesIntersectingChildren ==
    [][ \A r \in reads :
          CompletionOf(r) =>
            LET s == searches[r.search]
                node == coordinateFiles[r.coordinateFileIndex + 1][r.coordFilePos]
                center == Point(node.lon, node.lat)
                quadrants == Quadrants(r.thisRect, center)
                positions == ChildPositions(r.coordFilePos, node)
                capReached == /\ s.maxTitles >= 0
                              /\ Len(s.titlePositionsFound) >= s.maxTitles
                issued == reads' \ reads
            IN  /\ capReached =>
                     /\ issued = {}
                     /\ callbackCounterForTitlesInCoordsSearch' =
                            callbackCounterForTitlesInCoordsSearch - 1
                /\ (node.selector = 65535 /\ ~capReached) =>
                     /\ issued =
                            { [search |-> r.search,
                               coordinateFileIndex |-> r.coordinateFileIndex,
                               coordFilePos |-> positions[q],
                               thisRect |-> quadrants[q]]
                              : q \in { q \in 1 .. 4 :
                                          Intersect(s.targetRect, quadrants[q]) } }
                     /\ callbackCounterForTitlesInCoordsSearch' =
                            callbackCounterForTitlesInCoordsSearch - 1
                                + Cardinality(issued)
      ]_vars

\* C29 witness: the completion handler of the root of the quadtree file has
\* issued the reads of its north-west and north-east children, and only
\* those, for a rectangle that lies north of the center, and the counter is 2
C29_Witness ==
    /\ nextSearch = 2
    /\ searches[1].status = "accepted"
    /\ searches[1].issued = 3
    /\ { r.coordFilePos : r \in reads } = {38, 52}
    /\ callbackCounterForTitlesInCoordsSearch = 2

\* C30: getTitlesInCoords on an archive that has no coordinate file calls
\* its callback with an empty list (stated on the states in which nothing
\* the call has started is still to complete)
C30_NoShardCallsBackWithEmptyList ==
    \A s \in SearchIds :
        (coordinateFiles = <<>> /\ searches[s].status = "accepted"
             /\ AllReadsCompleted(s)) =>
            deliveries[s] = <<(<<>>)>>

\* ------------------------------------------------------------------------
\* Properties of getTitlesStartingAtOffset
\* ------------------------------------------------------------------------

\* the records of the title file that start at offset or after it
RecordsFrom(offset) ==
    { k \in 1 .. Len(titleIndex) : RecordOffsetIn(titleIndex, k) >= offset }

\* the first count records of the title file from offset on, in the order
\* of the file
ConsecutiveRecords(offset, count) ==
    LET remaining == Cardinality(RecordsFrom(offset))
        first == Len(titleIndex) - remaining + 1
        n == IF count <= 0 THEN 0
             ELSE IF remaining >= count THEN count ELSE remaining
    IN  [i \in 1 .. n |-> TitleRecord(titleIndex, first + i - 1)]

\* C32: getTitlesStartingAtOffset(offset, count) calls its callback once,
\* with the consecutive records of the title index from offset on, in file
\* order: count titles when at least count records remain, all the
\* remaining records otherwise, and the empty list when count <= 0.
C32_TitlesStartingAtOffset ==
    lookup.kind = "fromOffset" =>
        /\ Len(lookup.results) <= 1
        /\ lookup.status = "done" <=> Len(lookup.results) = 1
        /\ lookup.status \in {"starting", "advancing", "done"}
        /\ lookup.status = "done" =>
               LET titles == lookup.results[1]
                   remaining == Cardinality(RecordsFrom(lookup.start))
               IN  /\ titles = ConsecutiveRecords(lookup.start, lookup.maxSize)
                   /\ lookup.maxSize <= 0 => titles = <<>>
                   /\ (lookup.maxSize > 0 /\ remaining >= lookup.maxSize) =>
                          Len(titles) = lookup.maxSize
                   /\ (lookup.maxSize > 0 /\ remaining < lookup.maxSize) =>
                          Len(titles) = remaining
                   /\ \A i \in 1 .. Len(titles) :
                          /\ titles[i] = AdvanceIn(titleIndex,
                                                   titles[i].titleOffset)
                          /\ titles[i].titleOffset =
                                 IF i = 1 THEN lookup.start
                                 ELSE AfterRecordIn(titleIndex,
                                          titles[i - 1].titleOffset)

\* C32 witness: a query that starts after the first record has delivered
\* count = 2 titles while more records remain
C32_Witness ==
    /\ lookup.kind = "fromOffset"
    /\ lookup.status = "done"
    /\ lookup.start > 0
    /\ lookup.maxSize = 2
    /\ Len(lookup.results[1]) = 2
    /\ Cardinality(RecordsFrom(lookup.start)) > 2

\* ------------------------------------------------------------------------
\* The completion callback of initializeFromArchiveFiles
\* ------------------------------------------------------------------------

\* number of entries of the list named metadata.txt
MetadataCount(archiveFiles) ==
    Cardinality({ i \in 1 .. Len(archiveFiles) :
                    /\ archiveFiles[i] # NoFile
                    /\ archiveFiles[i].name = "metadata.txt" })

\* the files of the list that go to the title slot and to the data slots
TitleAndDataFilesOf(archiveFiles) ==
    { archiveFiles[i] : i \in { j \in 1 .. Len(archiveFiles) :
          /\ archiveFiles[j] # NoFile
          /\ \/ archiveFiles[j].name = "titles.idx"
             \/ DataFileNr(archiveFiles[j].name) >= 0 } }

\* the title file and the data files the archive holds
TitleAndDataFilesStored ==
    (IF archive.titleFile = NoFile THEN {} ELSE {archive.titleFile})
    \cup { dataFiles[i] : i \in StoredSlots(dataFiles) }

\* initializeFromArchiveFiles has been called once, with the list
\* archiveFiles, on a new archive, and initializeFromDeviceStorage never
FlatInitOf(archiveFiles) ==
    /\ flatInits = 1
    /\ ~deviceInit
    /\ coordinateFiles =
           FromArchiveFiles(NewArchive, <<>>, <<>>, archiveFiles).coordinateFiles
    /\ dataFiles =
           FromArchiveFiles(NewArchive, <<>>, <<>>, archiveFiles).dataFiles
    /\ archive.titleFile =
           FromArchiveFiles(NewArchive, <<>>, <<>>, archiveFiles).archive.titleFile

\* C31: the completion callback of initializeFromArchiveFiles runs only
\* after every file of the list is in its slot (the slots that isReady()
\* reads hold all the title and data files of the list when it runs, and
\* the callback step changes none); it has been called exactly once when
\* the reads of a list that holds exactly one metadata.txt have completed,
\* never more, and never for a list that holds none.
C31_CallbackAfterClassificationOnce ==
    /\ [](\A archiveFiles \in ArchiveFileLists :
            FlatInitOf(archiveFiles) =>
              /\ initCallbacks > 0 =>
                     TitleAndDataFilesStored = TitleAndDataFilesOf(archiveFiles)
              /\ MetadataCount(archiveFiles) = 0 => initCallbacks = 0
              /\ MetadataCount(archiveFiles) = 1 =>
                     /\ initCallbacks <= 1
                     /\ metadataReaders = <<>> => initCallbacks = 1)
    /\ [][ initCallbacks' > initCallbacks =>
             /\ flatInits + (IF deviceInit THEN 1 ELSE 0) > 0
             /\ UNCHANGED <<dataFiles, coordinateFiles, flatInits>>
             /\ archive'.titleFile = archive.titleFile ]_vars

\* ------------------------------------------------------------------------
\* The service worker (service-worker.js)
\* ------------------------------------------------------------------------

\* String.fromCharCode(code) for the escapes of one byte: the letters, the
\* digits and the punctuation the requests of the model escape; the other
\* characters of ASCII are not told apart
Punctuation == (32 :> " ") @@ (35 :> "#") @@ (37 :> "%") @@ (47 :> "/")
                   @@ (63 :> "?")

CharOfCode(code) ==
    IF code \in DOMAIN Punctuation THEN Punctuation[code]
    ELSE IF \E ch \in Chars : CharCode[ch] = code
    THEN CHOOSE ch \in Chars : CharCode[ch] = code
    ELSE "_"

\* the first code that is not ASCII: an escape from there on is a byte of a
\* UTF-8 sequence of several bytes
FirstNonAscii == 128

RECURSIVE FoldCase(_)
\* the string as a regular expression with the flag i reads it
FoldCase(str) ==
    IF str = "" THEN ""
    ELSE LET ch == SubSeq(str, 1, 1)
         IN  (IF ch \in Chars THEN ToLowerCase[ch] ELSE ch)
                 \o FoldCase(SubSeq(str, 2, Len(str)))

EndsWith(str, suffix) ==
    /\ Len(str) >= Len(suffix)
    /\ SubSeq(str, Len(str) - Len(suffix) + 1, Len(str)) = suffix

Contains(str, pattern) ==
    \E i \in 1 .. Len(str) : StartsWithAt(str, i, pattern)

\* regexpJPEG = /\.jpe?g$/i
regexpJPEG(str) ==
    EndsWith(FoldCase(str), ".jpg") \/ EndsWith(FoldCase(str), ".jpeg")

\* regexpPNG = /\.png$/i
regexpPNG(str) == EndsWith(FoldCase(str), ".png")

\* regexpJS = /\.js/i: the expression has no end anchor
regexpJS(str) == Contains(FoldCase(str), ".js")

\* regexpCSS = /\.css$/i
regexpCSS(str) == EndsWith(FoldCase(str), ".css")

\* regexpDummyArticle = /dummyArticle\.html$/
regexpDummyArticle(str) == EndsWith(str, "dummyArticle.html")

\* the places where /\/(.)\/(.*[^\/]+)$/ can match: a slash, any character,
\* a slash, and a rest that does not end with a slash
NamespacePlaces(url) ==
    { i \in 1 .. Len(url) - 3 :
        /\ CharAt(url, i) = "/"
        /\ CharAt(url, i + 2) = "/"
        /\ CharAt(url, Len(url)) # "/" }

\* regexpContentUrlWithNamespace.exec(url): the leftmost match
regexpContentUrlWithNamespace(url) ==
    IF NamespacePlaces(url) = {} THEN <<>>
    ELSE LET i == CHOOSE p \in NamespacePlaces(url) :
                      \A q \in NamespacePlaces(url) : p <= q
         IN  <<SubSeq(url, i, Len(url)), CharAt(url, i + 1),
               SubSeq(url, i + 3, Len(url))>>

\* regexpContentUrlWithoutNamespace.exec(url), for /^([^\/]+)$/
regexpContentUrlWithoutNamespace(url) ==
    IF url # "" /\ ~Contains(url, "/") THEN <<url, url>> ELSE <<>>

IsHexDigit(ch) ==
    IsDigit(ch) \/ (Len(ch) = 1 /\ Contains("abcdef", FoldCase(ch)))

HexValue(ch) ==
    IF IsDigit(ch) THEN DigitValue[ch]
    ELSE 9 + IndexIn("abcdef", FoldCase(ch))

\* the outcome of a function that can throw
Returned(value) == [threw |-> FALSE, value |-> value]
Thrown(error) == [threw |-> TRUE, value |-> error]

RECURSIVE DecodeURIComponent(_)
\* decodeURIComponent(str): each escape %XX is replaced by its character;
\* URIError when a % is not followed by two hexadecimal digits, or when the
\* escapes are not the UTF-8 encoding of a character (the requests of the
\* model escape no character of several bytes: a byte from 128 on stands
\* alone and is malformed)
DecodeURIComponent(str) ==
    IF str = "" THEN Returned("")
    ELSE IF CharAt(str, 1) # "%"
    THEN LET rest == DecodeURIComponent(SubSeq(str, 2, Len(str)))
         IN  IF rest.threw THEN rest
             ELSE Returned(CharAt(str, 1) \o rest.value)
    ELSE IF ~(IsHexDigit(CharAt(str, 2)) /\ IsHexDigit(CharAt(str, 3)))
    THEN Thrown("URIError")
    ELSE LET code == 16 * HexValue(CharAt(str, 2)) + HexValue(CharAt(str, 3))
             rest == DecodeURIComponent(SubSeq(str, 4, Len(str)))
         IN  IF code >= FirstNonAscii THEN Thrown("URIError")
             ELSE IF rest.threw THEN rest
             ELSE Returned(CharOfCode(code) \o rest.value)

RECURSIVE UpTo(_, _)
\* the start of str up to the first character of stops
UpTo(str, stops) ==
    IF str = "" \/ CharAt(str, 1) \in stops THEN ""
    ELSE CharAt(str, 1) \o UpTo(SubSeq(str, 2, Len(str)), stops)

\* util.removeUrlParameters(url): the query and the fragment are removed
removeUrlParameters(url) == UpTo(url, {"?", "#"})

\* contentType is declared and never assigned
Undefined == "undefined"

\* the content type chosen from the namespace and the name (lines 109-143)
ContentType(nameSpace, titleName) ==
    IF nameSpace = "A" THEN "text/html"
    ELSE IF nameSpace = "I" \/ nameSpace = "J"
    THEN IF regexpJPEG(titleName) THEN "image/jpeg"
         ELSE IF regexpPNG(titleName) THEN "image/png"
         ELSE Undefined
    ELSE IF nameSpace = "-"
    THEN IF regexpJS(titleName) THEN "text/javascript"
         ELSE IF regexpCSS(titleName) THEN "text/css"
         ELSE Undefined
    ELSE Undefined

\* the promise of a fetch that the service worker does not handle
NotHandled ==
    [intercepted |-> FALSE, status |-> "default", contentType |-> Undefined,
     body |-> "", asks |-> FALSE, titleName |-> ""]

\* fetchEventListener(event) up to the end of the executor of its promise,
\* for a request of url while the port to the application is port: whether
\* respondWith is called, how the promise stands, and the message posted
FetchEventListener(url, port) ==
    IF ~( /\ \/ regexpContentUrlWithNamespace(url) # <<>>
             \/ regexpContentUrlWithoutNamespace(url) # <<>>
          /\ ~regexpDummyArticle(url) )
    THEN NotHandled
    ELSE LET without == regexpContentUrlWithoutNamespace(url)
             with == regexpContentUrlWithNamespace(url)
             nameSpace == IF without # <<>> THEN "A" ELSE with[2]
             titleName == IF without # <<>> THEN without[2] ELSE with[3]
             contentType == ContentType(nameSpace, titleName)
             decoded == DecodeURIComponent(titleName)
         IN  IF nameSpace = "-" /\ regexpJS(titleName)
             THEN [intercepted |-> TRUE, status |-> "resolved",
                   contentType |-> contentType, body |-> ";",
                   asks |-> FALSE, titleName |-> ""]
             ELSE IF decoded.threw
             THEN [intercepted |-> TRUE, status |-> "rejected",
                   contentType |-> contentType, body |-> decoded.value,
                   asks |-> FALSE, titleName |-> ""]
             ELSE IF port = NullPort
             THEN [intercepted |-> TRUE, status |-> "rejected",
                   contentType |-> contentType, body |-> "TypeError",
                   asks |-> FALSE, titleName |-> ""]
             ELSE [intercepted |-> TRUE, status |-> "pending",
                   contentType |-> contentType, body |-> "",
                   asks |-> TRUE,
                   titleName |-> nameSpace \o "/"
                                     \o removeUrlParameters(decoded.value)]

\* the requests of the pages the service worker controls
FetchUrls ==
    { "https://k.org/www/A/Paris",
      "https://k.org/www/A/a%20b?x#y",
      "https://k.org/www/A/100%",
      "https://k.org/www/I/m/logo.PNG",
      "https://k.org/www/-/s/app.js",
      "https://k.org/www/-/s/style.css",
      "https://k.org/www/A/dummyArticle.html" }

\* what fetchEventListener does for each request, with outgoingMessagePort
\* null and with a port
Handled ==
    [url \in FetchUrls |->
        [isNull \in BOOLEAN |->
            FetchEventListener(url, IF isNull THEN NullPort ELSE NullPort + 1)]]

\* self.addEventListener('fetch', listener) with a listener that is
\* registered already, when the registration is not idempotent
AddEventListenerTwice(listeners, listener) == Append(listeners, listener)

\* self.addEventListener('fetch', listener): a listener that is registered
\* already is not registered again
AddEventListener(listeners, listener) ==
    IF \E i \in 1 .. Len(listeners) : listeners[i] = listener
    THEN listeners
    ELSE Append(listeners, listener)

\* self.removeEventListener('fetch', listener)
RemoveEventListener(listeners, listener) ==
    IF \E i \in 1 .. Len(listeners) : listeners[i] = listener
    THEN LET i == CHOOSE j \in 1 .. Len(listeners) : listeners[j] = listener
         IN  SubSeq(listeners, 1, i - 1)
                 \o SubSeq(listeners, i + 1, Len(listeners))
    ELSE listeners

\* the actions of the messages the application sends to the service worker
MessageActions == {"init", "disable", "ping"}

\* the listener of 'message'; an init message carries a new port
OnMessage(action) ==
    /\ messageEvents < MaxMessages
    /\ messageEvents' = messageEvents + 1
    /\ IF action = "init"
       THEN /\ outgoingMessagePort' = messageEvents + 1
            /\ fetchListeners' =
                   AddEventListener(fetchListeners, "fetchEventListener")
       ELSE IF action = "disable"
       THEN /\ outgoingMessagePort' = NullPort
            /\ fetchListeners' =
                   RemoveEventListener(fetchListeners, "fetchEventListener")
       ELSE UNCHANGED <<outgoingMessagePort, fetchListeners>>
    /\ UNCHANGED <<fetches, appInbox, portInbox, searchVars, articleVars,
                   initVars, titleVars, mathVars, redirectVars>>

\* a fetch event for url is dispatched: fetchEventListener runs when it is
\* registered, and its promise executor posts the request to the
\* application with port2 of a new MessageChannel
Fetch(url) ==
    /\ Len(fetches) < MaxFetches
    /\ LET channel == Len(fetches) + 1
           h == IF fetchListeners = <<>> THEN NotHandled
                ELSE Handled[url][outgoingMessagePort = NullPort]
       IN  /\ fetches' = Append(fetches,
                  [url |-> url, port |-> outgoingMessagePort,
                   intercepted |-> h.intercepted, status |-> h.status,
                   contentType |-> h.contentType, body |-> h.body,
                   channel |-> IF h.asks THEN channel ELSE 0])
           /\ appInbox' =
                  IF h.asks
                  THEN Append(appInbox,
                           [port |-> outgoingMessagePort,
                            action |-> "askForContent",
                            titleName |-> h.titleName,
                            replyPort |-> channel,
                            answer |-> ""])
                  ELSE appInbox
    /\ UNCHANGED <<outgoingMessagePort, fetchListeners, messageEvents,
                   portInbox, searchVars, articleVars, initVars, titleVars,
                   mathVars, redirectVars>>

\* the actions of the replies of the application
ReplyActions == {"giveContent", "error"}

\* the content the application reads in the archive for a title
ContentOf(titleName) == "content of " \o titleName

\* the application answers the i-th request on the port it came with
AppPostMessage(i, action) ==
    /\ i \in 1 .. Len(appInbox)
    /\ appInbox[i].answer = ""
    /\ appInbox' = [appInbox EXCEPT ![i].answer = action]
    /\ portInbox' = portInbox \cup
           {[port |-> appInbox[i].replyPort, action |-> action,
             content |-> ContentOf(appInbox[i].titleName)]}
    /\ UNCHANGED <<outgoingMessagePort, fetchListeners, messageEvents,
                   fetches, searchVars, articleVars, initVars, titleVars,
                   mathVars, redirectVars>>

\* messageChannel.port1.onmessage of the fetch whose channel the message m
\* came through: a promise that is settled stays as it is
PortOnmessage(m) ==
    /\ m \in portInbox
    /\ portInbox' = portInbox \ {m}
    /\ fetches' =
           IF fetches[m.port].status # "pending" THEN fetches
           ELSE IF m.action = "giveContent"
           THEN [fetches EXCEPT ![m.port].status = "resolved",
                                ![m.port].body = m.content]
           ELSE [fetches EXCEPT ![m.port].status = "rejected",
                                ![m.port].body = m.action]
    /\ UNCHANGED <<outgoingMessagePort, fetchListeners, messageEvents,
                   appInbox, searchVars, articleVars, initVars, titleVars,
                   mathVars, redirectVars>>

\* the service worker after its startup: no port, no fetch listener
InitServiceWorker ==
    /\ outgoingMessagePort = NullPort
    /\ fetchListeners = <<>>
    /\ messageEvents = 0
    /\ fetches = <<>>
    /\ appInbox = <<>>
    /\ portInbox = {}
    /\ archive = NewArchive
    /\ titleIndex = <<>>
    /\ redirect = NoRedirect
    /\ lookup = NoLookup
    /\ mathIndexFile = <<>>
    /\ mathDataFile = <<>>
    /\ mathLookup = NoMathLookup
    /\ dataFiles = <<>>
    /\ coordinateFiles = <<>>
    /\ directory = <<>>
    /\ storageFault = ""
    /\ requests = {}
    /\ metadataReaders = <<>>
    /\ initAlerts = NoAlerts
    /\ initCallbacks = 0
    /\ lastParsed = NoParse
    /\ flatInits = 0
    /\ deviceInit = FALSE
    /\ callbackCounterForTitlesInCoordsSearch = 0
    /\ searches = [s \in SearchIds |-> NoSearch]
    /\ nextSearch = 1
    /\ reads = {}
    /\ chains = <<>>
    /\ callbackRuns = {}
    /\ deliveries = [s \in SearchIds |-> <<>>]
    /\ alerts = [retry |-> 0, noTitle |-> 0]
    /\ nearbyRect = Rect(0, 0, 0, 0)
    /\ nearbyMaxTitles = 0
    /\ sessions = [a \in ArticleIds |-> NoSession]
    /\ nextSession = 1
    /\ onmessage = NoHandler
    /\ workerInbox = <<>>
    /\ workerOutbox = <<>>
    /\ callbacks = [a \in ArticleIds |-> <<>>]
    /\ consumed = {}

NextServiceWorker ==
    \/ \E action \in MessageActions : OnMessage(action)
    \/ \E url \in FetchUrls : Fetch(url)
    \/ \E i \in 1 .. Len(appInbox), action \in ReplyActions :
           AppPostMessage(i, action)
    \/ \E m \in portInbox : PortOnmessage(m)

\* the service worker, the pages it controls and the application
SpecServiceWorker == InitServiceWorker /\ [][NextServiceWorker]_vars

\* ------------------------------------------------------------------------
\* Properties of the service worker
\* ------------------------------------------------------------------------

\* C33: after any sequence of init and disable messages the fetch listener
\* is registered if and only if outgoingMessagePort is not null, and it is
\* registered once at most; no fetch event is handled while the port is
\* null: a fetch dispatched after a disable and before the next init is
\* not intercepted.
C33_ListenerIffPort ==
    /\ fetchListeners # <<>> <=> outgoingMessagePort # NullPort
    /\ Len(fetchListeners) <= 1
    /\ \A f \in 1 .. Len(fetches) :
           /\ fetches[f].intercepted => fetches[f].port # NullPort
           /\ fetches[f].port = NullPort =>
                  /\ fetches[f].status = "default"
                  /\ fetches[f].channel = 0

\* C33 witness: after an init and a disable, the request that was
\* intercepted while the port was set has gone unhandled once the port was
\* null again, and no listener is left
C33_Witness ==
    /\ messageEvents = 2
    /\ outgoingMessagePort = NullPort
    /\ fetchListeners = <<>>
    /\ Len(fetches) = 2
    /\ fetches[1].url = fetches[2].url
    /\ fetches[1].intercepted
    /\ ~fetches[2].intercepted

\* the requests of the model for a script of the layout (namespace -, name
\* matching .js)
ScriptRequests == { "https://k.org/www/-/s/app.js" }

\* the messages posted to the application with the reply port of fetch f
RequestsOf(f) == { i \in 1 .. Len(appInbox) : appInbox[i].replyPort = f }

\* the reply to the fetch f has been delivered to its port
ReplyDelivered(f, i) ==
    /\ appInbox[i].answer # ""
    /\ \A m \in portInbox : m.port # f

\* C34: every fetch the service worker intercepts, other than a request
\* for a script of the layout (answered at once with the body ; and no
\* message), posts exactly one askForContent message on outgoingMessagePort,
\* with a reply port no other message carries; it is resolved with the
\* content sent on its own reply port when the reply is giveContent,
\* rejected on another reply, and pending until then, in any order of the
\* replies of the fetches in flight.
C34_OneRequestPerFetch ==
    \A f \in 1 .. Len(fetches) :
        fetches[f].intercepted =>
            IF fetches[f].url \in ScriptRequests
            THEN /\ fetches[f].status = "resolved"
                 /\ fetches[f].body = ";"
                 /\ RequestsOf(f) = {}
            ELSE /\ Cardinality(RequestsOf(f)) = 1
                 /\ \A i \in RequestsOf(f) :
                        /\ appInbox[i].action = "askForContent"
                        /\ appInbox[i].port = fetches[f].port
                        /\ appInbox[i].port # NullPort
                        /\ IF ~ReplyDelivered(f, i)
                           THEN fetches[f].status = "pending"
                           ELSE IF appInbox[i].answer = "giveContent"
                           THEN /\ fetches[f].status = "resolved"
                                /\ fetches[f].body =
                                       ContentOf(appInbox[i].titleName)
                           ELSE fetches[f].status = "rejected"

====
